---- MODULE Spec2Model ----
(***************************************************************************)
(* Model of the frame tab of cnc_frames_milling (src/ui/frame/frame_tab.py).*)
(*                                                                         *)
(* Lengths are fixed-point integers: one unit is 1/Scale mm, so that every *)
(* quantity the placement solver computes from inputs with at most two     *)
(* decimals (x/2, 202.5, 157.5/2 = 78.75, ...) is represented exactly.     *)
(* The hinge routine divides by 2.5 and 4.75; its results are kept as      *)
(* numerators over HingeDen units.                                         *)
(*                                                                         *)
(* Stored "$ variables" are tagged values: a number, None (unset) or a     *)
(* non-empty non-numeric string, with Python's truthiness.  Stores holding *)
(* a string are given to the placement solver only.                        *)
(***************************************************************************)
EXTENDS Integers, Sequences, FiniteSets, TLC

VARIABLES
    dollar_vars,        \* main_window's $-variable store (name -> tagged value)
    hinge_count_spin,   \* value of the hinge count spin box
    pm_result,          \* list returned by the last _calculate_pm_positions call
    hinge_result,       \* list returned by the last _calculate_hinge_positions call
    errors,             \* per-PM error vector of the last run_validation
    pm_inputs,          \* the stored values the last solver call read
    prev_pm_call,       \* inputs and result of the solver call before the last one
    lock_auto_check,    \* the five "auto" check boxes
    lock_y_auto_check,
    hinge_auto_check,
    hinge_y_auto_check,
    pm_auto_check,
    _auto_calculation_running,
    done,               \* names of the operations that have acted so far
    pm_exception,       \* exception the last _calculate_pm_positions call raised
    last_op,            \* the operation that acted last
    last_changes,       \* the batch the last run_auto_calculations pass collected
    field_text,         \* text shown by the line edits (variable name -> characters)
    last_edit,          \* the last edit: field, text, stored value before, handler's path
    pc,                 \* position inside the handling of an editingFinished signal
    vr_args,            \* arguments of the last direct _calculate_valid_ranges call
    vr_result,          \* the ranges it returned
    pass_pc,            \* position inside a run_auto_calculations pass run step by step
    pass_changes,       \* the changes dict of that pass
    update_calls,       \* update_dollar_variables calls issued since that pass began
    last_count          \* the last update_hinge_count: count, changes dict, flags before

vars == <<dollar_vars, hinge_count_spin, pm_result, hinge_result, errors,
          pm_inputs, prev_pm_call, lock_auto_check, lock_y_auto_check,
          hinge_auto_check, hinge_y_auto_check, pm_auto_check,
          _auto_calculation_running, done, pm_exception, last_op, last_changes,
          field_text, last_edit, pc, vr_args, vr_result, pass_pc, pass_changes,
          update_calls, last_count>>

edit_vars == <<field_text, last_edit, pc>>

ranges_vars == <<vr_args, vr_result>>

pass_vars == <<pass_pc, pass_changes, update_calls>>

-----------------------------------------------------------------------------
(* Fixed-point representation *)

Scale == 200

mm(x) == x * Scale

Abs(x) == IF x < 0 THEN -x ELSE x

Max2(a, b) == IF a > b THEN a ELSE b

Min2(a, b) == IF a < b THEN a ELSE b

-----------------------------------------------------------------------------
(* Tagged values of the store *)

Num(n) == [t |-> "num", v |-> n]

NoneVal == [t |-> "none", v |-> 0]

\* a non-empty string that is not a number
StrVal == [t |-> "str", v |-> 0]

\* Python truthiness of a stored value: None and 0 are falsy
Truthy(x) == (x.t = "num" /\ x.v # 0) \/ x.t = "str"

\* main_window.get_dollar_variable(name): None when the name is not stored
get_dollar_variable(name) ==
    IF name \in DOMAIN dollar_vars THEN dollar_vars[name] ELSE NoneVal

pm_position_key == <<"pm1_position", "pm2_position", "pm3_position", "pm4_position">>

hinge_active_key == <<"hinge1_active", "hinge2_active", "hinge3_active", "hinge4_active">>

hinge_position_key ==
    <<"hinge1_position", "hinge2_position", "hinge3_position", "hinge4_position">>

-----------------------------------------------------------------------------
(* Class constants of FrameTab *)

MAX_FRAME_HEIGHT == 2500

MIN_FRAME_HEIGHT == 840

\* PM_CONFIG['sizes'][k] = [width, height]
PM_CONFIG_sizes == <<  <<265, 140>>, <<140, 175>>, <<175, 240>>, <<240, 120>>  >>

lock_safety_distance == 170

hinge_safety_distance == 170

min_range_size == 120

\* size/2 in units
Half(size) == (size * Scale) \div 2

min_pm1_to_pm2 == Half(PM_CONFIG_sizes[1][1]) + Half(PM_CONFIG_sizes[2][1])

min_pm2_to_pm3 == Half(PM_CONFIG_sizes[2][1]) + Half(PM_CONFIG_sizes[3][1])

min_pm3_to_pm4 == Half(PM_CONFIG_sizes[3][1]) + Half(PM_CONFIG_sizes[4][1])

pm4_half_height == Half(PM_CONFIG_sizes[4][2])

-----------------------------------------------------------------------------
(* Placement solver *)

\* a fallback that adds each minimum distance to PM1 instead of accumulating
_fallback_pm_positions_not_cumulative(pm1_pos) ==
    << pm1_pos,
       pm1_pos + min_pm1_to_pm2,
       pm1_pos + min_pm2_to_pm3,
       pm1_pos + min_pm3_to_pm4 >>

\* _fallback_pm_positions(pm1_pos): cumulative minimum distances
_fallback_pm_positions(pm1_pos) ==
    << pm1_pos,
       pm1_pos + min_pm1_to_pm2,
       pm1_pos + min_pm1_to_pm2 + min_pm2_to_pm3,
       pm1_pos + min_pm1_to_pm2 + min_pm2_to_pm3 + min_pm3_to_pm4 >>

\* _position_in_valid_ranges(position, valid_ranges)
_position_in_valid_ranges(position, valid_ranges) ==
    \E i \in 1..Len(valid_ranges) :
        valid_ranges[i][1] <= position /\ position <= valid_ranges[i][2]

\* sorted(obstacles, key=lambda x: x[0]): stable insertion by start
RECURSIVE SortedInsert(_, _)
SortedInsert(s, x) ==
    IF s = <<>> THEN <<x>>
    ELSE IF x[1] < Head(s)[1] THEN <<x>> \o s
    ELSE <<Head(s)>> \o SortedInsert(Tail(s), x)

\* obstacles taken in the order given
SortByStart_as_given(obstacles) == obstacles

RECURSIVE SortByStart(_)
SortByStart(obstacles) ==
    IF obstacles = <<>> THEN <<>>
    ELSE SortedInsert(SortByStart(SubSeq(obstacles, 1, Len(obstacles) - 1)),
                      obstacles[Len(obstacles)])

\* the for loop of _calculate_valid_ranges over the sorted obstacles
RECURSIVE ValidRangesLoop(_, _, _, _, _)
ValidRangesLoop(obstacles, range_start, range_end, current_start, valid_ranges) ==
    IF obstacles = <<>>
    THEN IF current_start < range_end
         THEN Append(valid_ranges, <<current_start, range_end>>)
         ELSE valid_ranges
    ELSE LET obstacle_start == Max2(Head(obstacles)[1], range_start)
             obstacle_end   == Min2(Head(obstacles)[2], range_end)
         IN  IF obstacle_start < range_end /\ obstacle_end > range_start
             THEN ValidRangesLoop(Tail(obstacles), range_start, range_end,
                      Max2(current_start, obstacle_end),
                      IF obstacle_start > current_start
                      THEN Append(valid_ranges, <<current_start, obstacle_start>>)
                      ELSE valid_ranges)
             ELSE ValidRangesLoop(Tail(obstacles), range_start, range_end,
                      current_start, valid_ranges)

_calculate_valid_ranges(range_start, range_end, obstacles) ==
    ValidRangesLoop(SortByStart(obstacles), range_start, range_end, range_start, <<>>)

\* valid ranges kept whatever their length
FilterRanges_keep_short(valid_ranges) == valid_ranges

\* [(start, end) for start, end in valid_ranges if end - start >= min_size]
FilterRanges(valid_ranges) ==
    SelectSeq(valid_ranges, LAMBDA r : r[2] - r[1] >= mm(min_range_size))

\* first range start >= bound, scanning forward; default when none
RECURSIVE FirstStartAtLeast(_, _, _)
FirstStartAtLeast(valid_ranges, bound, default) ==
    IF valid_ranges = <<>> THEN default
    ELSE IF Head(valid_ranges)[1] >= bound THEN Head(valid_ranges)[1]
    ELSE FirstStartAtLeast(Tail(valid_ranges), bound, default)

\* the end of the last range whatever the bound
LastEndAtMost_unbounded(valid_ranges, bound, default) ==
    IF valid_ranges = <<>> THEN default
    ELSE valid_ranges[Len(valid_ranges)][2]

\* last range end <= bound, scanning in reverse; default when none
RECURSIVE LastEndAtMost(_, _, _)
LastEndAtMost(valid_ranges, bound, default) ==
    IF valid_ranges = <<>> THEN default
    ELSE IF valid_ranges[Len(valid_ranges)][2] <= bound
         THEN valid_ranges[Len(valid_ranges)][2]
    ELSE LastEndAtMost(SubSeq(valid_ranges, 1, Len(valid_ranges) - 1), bound, default)

\* candidates after the snapping step (lines 585-603)
SnapPM2(pm1_pos, valid_ranges) ==
    LET pm2_pos == pm1_pos + min_pm1_to_pm2
    IN  IF ~ _position_in_valid_ranges(pm2_pos, valid_ranges)
        THEN FirstStartAtLeast(valid_ranges, pm1_pos + min_pm1_to_pm2, pm2_pos)
        ELSE pm2_pos

\* a PM3 candidate taken with the PM2-PM3 distance instead of the PM3-PM4 one
SnapPM3_wrong_distance(pm4_pos, valid_ranges) ==
    LET pm3_pos == pm4_pos - min_pm2_to_pm3
    IN  IF ~ _position_in_valid_ranges(pm3_pos, valid_ranges)
        THEN LastEndAtMost(valid_ranges, pm4_pos - min_pm2_to_pm3, pm3_pos)
        ELSE pm3_pos

SnapPM3(pm4_pos, valid_ranges) ==
    LET pm3_pos == pm4_pos - min_pm3_to_pm4
    IN  IF ~ _position_in_valid_ranges(pm3_pos, valid_ranges)
        THEN LastEndAtMost(valid_ranges, pm4_pos - min_pm3_to_pm4, pm3_pos)
        ELSE pm3_pos

\* the re-centered pair returned as it is, in a valid range or not
Recenter_no_replacement(pm1_pos, best_pm2, best_pm3, valid_ranges) ==
    LET mid_point == (best_pm2 + best_pm3) \div 2
    IN  <<mid_point - min_pm2_to_pm3 \div 2, mid_point + min_pm2_to_pm3 \div 2>>

\* the midpoint adjustment (lines 606-616); positions are even numbers of units
Recenter(pm1_pos, best_pm2, best_pm3, valid_ranges) ==
    LET mid_point == (best_pm2 + best_pm3) \div 2
        c2 == mid_point - min_pm2_to_pm3 \div 2
        c3 == mid_point + min_pm2_to_pm3 \div 2
        r2 == IF ~ _position_in_valid_ranges(c2, valid_ranges)
              THEN pm1_pos + min_pm1_to_pm2 ELSE c2
        r3 == IF ~ _position_in_valid_ranges(c3, valid_ranges)
              THEN r2 + min_pm2_to_pm3 ELSE c3
    IN  <<r2, r3>>

\* with too little room the pair is placed at the minimum distances below PM4
_optimize_pm2_pm3_positions_from_pm4(pm1_pos, pm4_pos, valid_ranges) ==
    LET pm2_pos == pm1_pos + min_pm1_to_pm2
        pm3_pos == pm4_pos - min_pm3_to_pm4
    IN  IF pm3_pos - pm2_pos < min_pm2_to_pm3
        THEN <<pm3_pos - min_pm2_to_pm3, pm3_pos>>
        ELSE LET best_pm2 == SnapPM2(pm1_pos, valid_ranges)
                 best_pm3 == SnapPM3(pm4_pos, valid_ranges)
             IN  IF best_pm3 - best_pm2 < min_pm2_to_pm3
                 THEN Recenter(pm1_pos, best_pm2, best_pm3, valid_ranges)
                 ELSE <<best_pm2, best_pm3>>

_optimize_pm2_pm3_positions(pm1_pos, pm4_pos, valid_ranges) ==
    LET pm2_pos == pm1_pos + min_pm1_to_pm2
        pm3_pos == pm4_pos - min_pm3_to_pm4
    IN  IF pm3_pos - pm2_pos < min_pm2_to_pm3
        THEN <<pm1_pos + min_pm1_to_pm2, pm1_pos + min_pm1_to_pm2 + min_pm2_to_pm3>>
        ELSE LET best_pm2 == SnapPM2(pm1_pos, valid_ranges)
                 best_pm3 == SnapPM3(pm4_pos, valid_ranges)
             IN  IF best_pm3 - best_pm2 < min_pm2_to_pm3
                 THEN Recenter(pm1_pos, best_pm2, best_pm3, valid_ranges)
                 ELSE <<best_pm2, best_pm3>>

\* the (start, end) obstacle of one lock/hinge: present when the active flag is
\* truthy and the stored position is truthy and > 0 (lines 498-503, 507-512)
ObstacleOf(active, position, safety) ==
    IF Truthy(active) /\ Truthy(position) /\ position.v > 0
    THEN << <<position.v - mm(safety), position.v + mm(safety)>> >>
    ELSE <<>>

\* Step 2: the list of obstacles, lock first, then hinge 1..4
SolverObstacles ==
    ObstacleOf(get_dollar_variable("lock_active"),
               get_dollar_variable("lock_position"), lock_safety_distance)
    \o ObstacleOf(get_dollar_variable(hinge_active_key[1]),
                  get_dollar_variable(hinge_position_key[1]), hinge_safety_distance)
    \o ObstacleOf(get_dollar_variable(hinge_active_key[2]),
                  get_dollar_variable(hinge_position_key[2]), hinge_safety_distance)
    \o ObstacleOf(get_dollar_variable(hinge_active_key[3]),
                  get_dollar_variable(hinge_position_key[3]), hinge_safety_distance)
    \o ObstacleOf(get_dollar_variable(hinge_active_key[4]),
                  get_dollar_variable(hinge_position_key[4]), hinge_safety_distance)

\* pm1_pos as the solver uses it: the stored value, -25 when unset
pm1_pos_or_default ==
    IF get_dollar_variable("pm1_position").t = "none"
    THEN mm(-25)
    ELSE get_dollar_variable("pm1_position").v

\* valid ranges that depend on the error state left by the last validation
SolverValidRanges_stateful(range_start, range_end) ==
    IF errors[4] THEN <<>>
    ELSE FilterRanges(_calculate_valid_ranges(range_start, range_end, SolverObstacles))

\* Steps 3-4: valid ranges of the usable span, short ranges removed
SolverValidRanges(range_start, range_end) ==
    FilterRanges(_calculate_valid_ranges(range_start, range_end, SolverObstacles))

\* a TypeError is raised inside the try block: an order comparison or an
\* addition meets a string, in the order the statements run
SolverTypeError ==
    LET frame_height == get_dollar_variable("frame_height")
        pm1_pos      == get_dollar_variable("pm1_position")
    IN  IF frame_height.t = "str" THEN TRUE
        ELSE IF ~ Truthy(frame_height) \/ frame_height.v <= 0 THEN FALSE
        ELSE IF pm1_pos.t = "str" THEN TRUE
        ELSE IF frame_height.v - pm4_half_height <= pm1_pos_or_default + min_pm1_to_pm2
        THEN FALSE
        ELSE \/ /\ Truthy(get_dollar_variable("lock_active"))
                /\ get_dollar_variable("lock_position").t = "str"
             \/ \E i \in 1..4 :
                    /\ Truthy(get_dollar_variable(hinge_active_key[i]))
                    /\ get_dollar_variable(hinge_position_key[i]).t = "str"

\* the fallback call after the except clause is outside the try block: with a
\* string pm1_pos its first addition raises TypeError again, uncaught
_calculate_pm_positions_raises ==
    SolverTypeError /\ get_dollar_variable("pm1_position").t = "str"

\* PM4 placed at the end of the first valid range
_calculate_pm_positions_first_range ==
    LET frame_height == get_dollar_variable("frame_height")
        pm1_pos      == pm1_pos_or_default
        range_start  == pm1_pos + min_pm1_to_pm2
        range_end    == frame_height.v - pm4_half_height
    IN  IF SolverTypeError
        THEN IF _calculate_pm_positions_raises THEN <<>>
             ELSE _fallback_pm_positions(pm1_pos)
        ELSE IF ~ Truthy(frame_height) \/ frame_height.v <= 0
        THEN <<>>
        ELSE IF range_end <= range_start
        THEN _fallback_pm_positions(pm1_pos)
        ELSE LET valid_ranges == SolverValidRanges(range_start, range_end)
             IN  IF valid_ranges = <<>>
                 THEN _fallback_pm_positions(pm1_pos)
                 ELSE LET pm4_pos == valid_ranges[1][2]
                          pm23 == _optimize_pm2_pm3_positions(pm1_pos, pm4_pos,
                                                              valid_ranges)
                      IN  <<pm1_pos, pm23[1], pm23[2], pm4_pos>>

_calculate_pm_positions ==
    LET frame_height == get_dollar_variable("frame_height")
        pm1_pos      == pm1_pos_or_default
        range_start  == pm1_pos + min_pm1_to_pm2
        range_end    == frame_height.v - pm4_half_height
    IN  IF SolverTypeError
        THEN IF _calculate_pm_positions_raises THEN <<>>
             ELSE _fallback_pm_positions(pm1_pos)
        ELSE IF ~ Truthy(frame_height) \/ frame_height.v <= 0
        THEN <<>>
        ELSE IF range_end <= range_start
        THEN _fallback_pm_positions(pm1_pos)
        ELSE LET valid_ranges == SolverValidRanges(range_start, range_end)
             IN  IF valid_ranges = <<>>
                 THEN _fallback_pm_positions(pm1_pos)
                 ELSE LET pm4_pos == valid_ranges[Len(valid_ranges)][2]
                          pm23 == _optimize_pm2_pm3_positions(pm1_pos, pm4_pos,
                                                              valid_ranges)
                      IN  <<pm1_pos, pm23[1], pm23[2], pm4_pos>>

-----------------------------------------------------------------------------
(* Hinge positions *)

\* 2.5 = 5/2 and 4.75 = 19/4: every hinge position is a whole number of
\* 1/HingeDen units
HingeDen == 5 * 19

\* a last hinge position that ignores the frame height
HingeLastPos_fixed(frame_height) == mm(1800)

\* last_pos = 1800 if frame_height >= 2000 else frame_height - 200
HingeLastPos(frame_height) ==
    IF frame_height >= mm(2000) THEN mm(1800) ELSE frame_height - mm(200)

\* hinges spaced evenly between the first and the last position
_calculate_hinge_positions_evenly_spaced ==
    LET frame_height == get_dollar_variable("frame_height")
        count        == hinge_count_spin
        last_pos     == HingeLastPos(frame_height.v)
        total_distance == last_pos - mm(150)
    IN  IF ~ Truthy(frame_height) \/ frame_height.v <= 0 \/ count <= 0
        THEN <<>>
        ELSE IF count = 1
        THEN << (frame_height.v * HingeDen) \div 2 >>
        ELSE IF count = 2
        THEN << mm(150) * HingeDen, last_pos * HingeDen >>
        ELSE IF count = 3
        THEN << mm(150) * HingeDen,
                mm(150) * HingeDen + (total_distance * HingeDen) \div 2,
                last_pos * HingeDen >>
        ELSE IF count = 4
        THEN LET d1 == (total_distance * HingeDen) \div 3
             IN  << mm(150) * HingeDen,
                    mm(150) * HingeDen + d1,
                    mm(150) * HingeDen + 2 * d1,
                    last_pos * HingeDen >>
        ELSE <<>>

\* _calculate_hinge_positions(): positions as numerators over HingeDen
_calculate_hinge_positions ==
    LET frame_height == get_dollar_variable("frame_height")
        count        == hinge_count_spin
        last_pos     == HingeLastPos(frame_height.v)
        total_distance == last_pos - mm(150)
    IN  IF ~ Truthy(frame_height) \/ frame_height.v <= 0 \/ count <= 0
        THEN <<>>
        ELSE IF count = 1
        THEN << (frame_height.v * HingeDen) \div 2 >>
        ELSE IF count = 2
        THEN << mm(150) * HingeDen, last_pos * HingeDen >>
        ELSE IF count = 3
        THEN << mm(150) * HingeDen,
                mm(150) * HingeDen + ((last_pos - mm(150)) * HingeDen * 2) \div 5,
                last_pos * HingeDen >>
        ELSE IF count = 4
        THEN LET d1 == (total_distance * HingeDen * 4) \div 19
             IN  << mm(150) * HingeDen,
                    mm(150) * HingeDen + d1,
                    mm(150) * HingeDen + d1 + (3 * d1) \div 2,
                    last_pos * HingeDen >>
        ELSE <<>>

-----------------------------------------------------------------------------
(* Validation *)

\* pm_positions[i] = get_dollar_variable(f"pm{i+1}_position") or 0
OrZero(x) == IF Truthy(x) THEN x.v ELSE 0

ValidationPMPositions ==
    [i \in 1..4 |-> OrZero(get_dollar_variable(pm_position_key[i]))]

\* distance_checks: (i, j, min_dist), 1-based
distance_checks ==
    << <<1, 2, min_pm1_to_pm2>>, <<2, 3, min_pm2_to_pm3>>, <<3, 4, min_pm3_to_pm4>> >>

\* for i, j, min_dist in distance_checks: ... errors[i] = errors[j] = True
RECURSIVE DistanceLoop(_, _, _)
DistanceLoop(checks, pm_positions, errs) ==
    IF checks = <<>> THEN errs
    ELSE LET i == Head(checks)[1]
             j == Head(checks)[2]
             min_dist == Head(checks)[3]
         IN  DistanceLoop(Tail(checks), pm_positions,
                 IF pm_positions[j] - pm_positions[i] < min_dist
                 THEN [errs EXCEPT ![i] = TRUE, ![j] = TRUE]
                 ELSE errs)

\* an obstacle collected whatever the active flag says
ValidationObstacleOf_ignores_active(active, position) ==
    IF Truthy(position) /\ position.v > 0
    THEN <<position.v>> ELSE <<>>

\* the obstacle position of one lock/hinge as run_validation collects it
ValidationObstacleOf(active, position) ==
    IF Truthy(active) /\ Truthy(position) /\ position.v > 0
    THEN <<position.v>> ELSE <<>>

ValidationObstacles ==
    ValidationObstacleOf(get_dollar_variable("lock_active"),
                         get_dollar_variable("lock_position"))
    \o ValidationObstacleOf(get_dollar_variable(hinge_active_key[1]),
                            get_dollar_variable(hinge_position_key[1]))
    \o ValidationObstacleOf(get_dollar_variable(hinge_active_key[2]),
                            get_dollar_variable(hinge_position_key[2]))
    \o ValidationObstacleOf(get_dollar_variable(hinge_active_key[3]),
                            get_dollar_variable(hinge_position_key[3]))
    \o ValidationObstacleOf(get_dollar_variable(hinge_active_key[4]),
                            get_dollar_variable(hinge_position_key[4]))

safety_distance == Max2(lock_safety_distance, hinge_safety_distance)

\* an obstacle check that also flags a PM at exactly the safety distance
RECURSIVE ObstacleLoop_inclusive(_, _, _, _)
ObstacleLoop_inclusive(i, pm_positions, obstacles, errs) ==
    IF i > 4 THEN errs
    ELSE ObstacleLoop_inclusive(i + 1, pm_positions, obstacles,
             IF \E k \in 1..Len(obstacles) :
                    Abs(pm_positions[i] - obstacles[k]) <= mm(safety_distance)
             THEN [errs EXCEPT ![i] = TRUE]
             ELSE errs)

\* for i, pm_pos in enumerate(pm_positions): for obstacle_pos in obstacles: ...
RECURSIVE ObstacleLoop(_, _, _, _)
ObstacleLoop(i, pm_positions, obstacles, errs) ==
    IF i > 4 THEN errs
    ELSE ObstacleLoop(i + 1, pm_positions, obstacles,
             IF \E k \in 1..Len(obstacles) :
                    Abs(pm_positions[i] - obstacles[k]) < mm(safety_distance)
             THEN [errs EXCEPT ![i] = TRUE]
             ELSE errs)

\* a frame-height check that compares PM3 instead of PM4
PM4LimitCheck_wrong_index(frame_height, pm_positions, errs) ==
    IF frame_height > 0
    THEN IF pm_positions[3] > frame_height - pm4_half_height
         THEN [errs EXCEPT ![4] = TRUE]
         ELSE errs
    ELSE errs

\* the PM4 frame-height check (lines 917-921)
PM4LimitCheck(frame_height, pm_positions, errs) ==
    IF frame_height > 0
    THEN IF pm_positions[4] > frame_height - pm4_half_height
         THEN [errs EXCEPT ![4] = TRUE]
         ELSE errs
    ELSE errs

\* the error vector run_validation hands to the PM inputs
ValidationErrors ==
    LET pm_positions == ValidationPMPositions
        frame_height == OrZero(get_dollar_variable("frame_height"))
        e0 == [i \in 1..4 |-> FALSE]
        e1 == DistanceLoop(distance_checks, pm_positions, e0)
        e2 == ObstacleLoop(1, pm_positions, ValidationObstacles, e1)
    IN  PM4LimitCheck(frame_height, pm_positions, e2)

-----------------------------------------------------------------------------
(* Line edits: texts are sequences of characters over digits, "-", ".", " " *)
(* and letters; numeric texts have at most two decimals, which the units    *)
(* represent exactly                                                       *)

DigitChars == <<"0", "1", "2", "3", "4", "5", "6", "7", "8", "9">>

IsDigit(c) == \E i \in 1..Len(DigitChars) : DigitChars[i] = c

DigitValue(c) == (CHOOSE i \in 1..Len(DigitChars) : DigitChars[i] = c) - 1

\* str(k) of an int k >= 0
RECURSIVE DigitsOf(_)
DigitsOf(k) ==
    IF k < 10 THEN <<DigitChars[k + 1]>>
    ELSE DigitsOf(k \div 10) \o <<DigitChars[(k % 10) + 1]>>

\* SimpleDollarLineEdit._format_value(value): str() of an int or of a float,
\* an integral float without its ".0"
_format_value(value) ==
    IF value.t = "str" THEN <<"a", "b", "c">>
    ELSE LET a          == Abs(value.v)
             thousandth == ((a % Scale) * 1000) \div Scale
             d1         == DigitChars[(thousandth \div 100) + 1]
             d2         == DigitChars[((thousandth \div 10) % 10) + 1]
             d3         == DigitChars[(thousandth % 10) + 1]
             sign       == IF value.v < 0 THEN <<"-">> ELSE <<>>
             fraction   == IF thousandth = 0 THEN <<>>
                           ELSE IF thousandth % 100 = 0 THEN <<".", d1>>
                           ELSE IF thousandth % 10 = 0 THEN <<".", d1, d2>>
                           ELSE <<".", d1, d2, d3>>
         IN  sign \o DigitsOf(a \div Scale) \o fraction

\* text.strip()
RECURSIVE StripLeft(_)
StripLeft(text) ==
    IF text # <<>> /\ Head(text) = " " THEN StripLeft(Tail(text)) ELSE text

RECURSIVE StripRight(_)
StripRight(text) ==
    IF text # <<>> /\ text[Len(text)] = " "
    THEN StripRight(SubSeq(text, 1, Len(text) - 1))
    ELSE text

Strip(text) == StripRight(StripLeft(text))

AllDigits(text) == \A i \in 1..Len(text) : IsDigit(text[i])

RECURSIVE DigitsValue(_, _)
DigitsValue(text, acc) ==
    IF text = <<>> THEN acc
    ELSE DigitsValue(Tail(text), acc * 10 + DigitValue(Head(text)))

RECURSIVE Pow10(_)
Pow10(k) == IF k = 0 THEN 1 ELSE 10 * Pow10(k - 1)

\* a conversion that reads a text that is not a number as 0
ParseInt_lenient(text) ==
    LET neg  == text # <<>> /\ Head(text) = "-"
        body == IF neg THEN Tail(text) ELSE text
    IN  IF body # <<>> /\ AllDigits(body)
        THEN <<(IF neg THEN -1 ELSE 1) * DigitsValue(body, 0) * Scale>>
        ELSE <<0>>

\* int(text) in units; <<>> stands for ValueError
ParseInt(text) ==
    LET neg  == text # <<>> /\ Head(text) = "-"
        body == IF neg THEN Tail(text) ELSE text
    IN  IF body # <<>> /\ AllDigits(body)
        THEN <<(IF neg THEN -1 ELSE 1) * DigitsValue(body, 0) * Scale>>
        ELSE <<>>

\* float(text) of a text that holds a "." in units; <<>> stands for ValueError
ParseFloat(text) ==
    LET neg   == text # <<>> /\ Head(text) = "-"
        body  == IF neg THEN Tail(text) ELSE text
        dot   == CHOOSE i \in 1..Len(body) :
                     body[i] = "." /\ \A j \in 1..(i - 1) : body[j] # "."
        whole == SubSeq(body, 1, dot - 1)
        frac  == SubSeq(body, dot + 1, Len(body))
    IN  IF /\ \E i \in 1..Len(body) : body[i] = "."
           /\ AllDigits(whole) /\ AllDigits(frac)
           /\ (whole # <<>> \/ frac # <<>>)
        THEN <<(IF neg THEN -1 ELSE 1)
                 * (DigitsValue(whole, 0) * Scale
                    + (DigitsValue(frac, 0) * Scale) \div Pow10(Len(frac)))>>
        ELSE <<>>

\* the conversion of _on_editing_finished: empty text is 0, a text with a "."
\* goes through float(), any other through int()
ParseText(text) ==
    LET stripped == Strip(text)
    IN  IF stripped = <<>> THEN <<0>>
        ELSE IF \E i \in 1..Len(stripped) : stripped[i] = "." THEN ParseFloat(stripped)
        ELSE ParseInt(stripped)

\* the line edits whose text is followed: the height field and the PM1 field
EditFields == {"frame_height", "pm1_position"}

\* update_ui_from_main_window(): every line edit runs update_from_main_window,
\* which sets its text only when the stored value is not None
update_ui_from_main_window(texts, store) ==
    [f \in EditFields |->
        IF f \in DOMAIN store /\ store[f].t # "none"
        THEN _format_value(store[f])
        ELSE texts[f]]

-----------------------------------------------------------------------------
(* Auto-calculation pass *)

\* round(x, 1) of x = n/den units: nearest tenth of a mm, ties to even; the
\* result is in units
Round1(n, den) ==
    LET q == (Scale \div 10) * den
        f == n \div q
        r == n - f * q
        t == IF 2 * r < q THEN f
             ELSE IF 2 * r > q THEN f + 1
             ELSE IF f % 2 = 0 THEN f ELSE f + 1
    IN  t * (Scale \div 10)

\* _calculate_lock_position(): just 1050
_calculate_lock_position == mm(1050)

\* _calculate_lock_y_offset() and _calculate_hinge_y_offset(): the same formula;
\* <<>> stands for None
_calculate_lock_y_offset ==
    LET frame_width == get_dollar_variable("frame_width")
        door_width  == get_dollar_variable("door_width")
    IN  IF frame_width.t # "none" /\ door_width.t # "none"
        THEN IF door_width.v <= mm(45)
             THEN <<frame_width.v - door_width.v \div 2>>
             ELSE <<frame_width.v - mm(45) \div 2>>
        ELSE <<>>

_calculate_hinge_y_offset == _calculate_lock_y_offset

\* the changes one group contributes: a function from variable names to values
NoChanges == [k \in {} |-> NoneVal]

\* the lock position is collected whatever the check box says
LockChanges_always(checked) ==
    "lock_position" :> Num(Round1(_calculate_lock_position, 1))

LockChanges(checked) ==
    IF checked
    THEN "lock_position" :> Num(Round1(_calculate_lock_position, 1))
    ELSE NoChanges

LockYChanges(checked) ==
    IF checked /\ _calculate_lock_y_offset # <<>>
    THEN "lock_y_offset" :> Num(Round1(_calculate_lock_y_offset[1], 1))
    ELSE NoChanges

HingeChanges(checked) ==
    IF checked
    THEN LET hinge_positions == _calculate_hinge_positions
         IN  [k \in {hinge_position_key[i] : i \in 1..Len(hinge_positions)} |->
                 LET i == CHOOSE j \in 1..4 : hinge_position_key[j] = k
                 IN  Num(Round1(hinge_positions[i], HingeDen))]
    ELSE NoChanges

HingeYChanges(checked) ==
    IF checked /\ _calculate_hinge_y_offset # <<>>
    THEN "hinge_y_offset" :> Num(Round1(_calculate_hinge_y_offset[1], 1))
    ELSE NoChanges

\* a PM group that writes the fallback positions when the solver returns nothing
PMChanges_fallback_when_empty(checked) ==
    IF checked
    THEN LET pm_positions == IF _calculate_pm_positions = <<>>
                             THEN _fallback_pm_positions(pm1_pos_or_default)
                             ELSE _calculate_pm_positions
         IN  [k \in {pm_position_key[i] : i \in 1..Len(pm_positions)} |->
                 LET i == CHOOSE j \in 1..4 : pm_position_key[j] = k
                 IN  Num(Round1(pm_positions[i], 1))]
    ELSE NoChanges

PMChanges(checked) ==
    IF checked
    THEN LET pm_positions == _calculate_pm_positions
         IN  [k \in {pm_position_key[i] : i \in 1..Len(pm_positions)} |->
                 LET i == CHOOSE j \in 1..4 : pm_position_key[j] = k
                 IN  Num(Round1(pm_positions[i], 1))]
    ELSE NoChanges

\* the batch of run_auto_calculations for given states of the five check boxes
\* (lock, lock y, hinge, hinge y, PM); the groups write disjoint names
AutoChanges(la, ly, ha, hy, pa) ==
    LockChanges(la) @@ LockYChanges(ly) @@ HingeChanges(ha) @@ HingeYChanges(hy)
    @@ PMChanges(pa)

\* main_window.update_dollar_variables(changes): the store after the update
update_dollar_variables(changes) == changes @@ dollar_vars

\* the stored values _calculate_pm_positions reads
SolverInputKeys ==
    {"frame_height", "pm1_position", "lock_active", "lock_position"}
    \cup {hinge_active_key[i] : i \in 1..4} \cup {hinge_position_key[i] : i \in 1..4}

SolverInputs == [k \in SolverInputKeys |-> get_dollar_variable(k)]

NoCall == [inputs |-> [k \in SolverInputKeys |-> NoneVal], result |-> <<>>]

\* bookkeeping of a solver call: its inputs and result, and the call before it
RecordPMCall ==
    /\ pm_result' = _calculate_pm_positions
    /\ pm_exception' = IF _calculate_pm_positions_raises THEN "TypeError" ELSE "none"
    /\ pm_inputs' = SolverInputs
    /\ prev_pm_call' = IF "pm" \in done
                       THEN [inputs |-> pm_inputs, result |-> pm_result]
                       ELSE prev_pm_call

PMDone == IF "pm" \in done THEN {"pm", "pm_again"} ELSE {"pm"}

\* the body of run_auto_calculations() with the check boxes in the given
\* states, entered with _auto_calculation_running = False: the batch is
\* collected and handed to update_dollar_variables.  An exception of the
\* solver leaves the pass before anything is written; the finally clause
\* resets the flag.
AutoPass(la, ly, ha, hy, pa) ==
    LET changes == IF pa /\ _calculate_pm_positions_raises THEN NoChanges
                   ELSE AutoChanges(la, ly, ha, hy, pa)
    IN  /\ ~ _auto_calculation_running
        /\ dollar_vars' = update_dollar_variables(changes)
        /\ last_changes' = changes
        /\ hinge_result' = IF ha THEN _calculate_hinge_positions ELSE hinge_result
        /\ IF pa THEN RecordPMCall
                 ELSE UNCHANGED <<pm_result, pm_inputs, prev_pm_call, pm_exception>>
        /\ _auto_calculation_running' = FALSE

\* run_auto_calculations() called on its own.  The batched store update
\* notifies the 'variables' subscribers: the nested on_variables_updated finds
\* the pass running, refreshes the line edits, skips its own pass and runs
\* run_validation on the updated store.
run_auto_calculations(la, ly, ha, hy, pa) ==
    /\ AutoPass(la, ly, ha, hy, pa)
    /\ field_text' = IF DOMAIN last_changes' # {}
                     THEN update_ui_from_main_window(field_text, dollar_vars')
                     ELSE field_text
    /\ errors' = IF DOMAIN last_changes' # {} THEN ValidationErrors' ELSE errors
    /\ done' = done \cup {"auto"} \cup (IF pa THEN PMDone ELSE {})
                    \cup (IF DOMAIN last_changes' # {} THEN {"validation"} ELSE {})

-----------------------------------------------------------------------------
(* Operations *)

\* a direct call of _calculate_pm_positions()
CallCalculatePM ==
    /\ RecordPMCall
    /\ done' = done \cup PMDone
    /\ last_op' = "pm"
    /\ UNCHANGED <<dollar_vars, hinge_count_spin, hinge_result, errors,
                   lock_auto_check, lock_y_auto_check, hinge_auto_check,
                   hinge_y_auto_check, pm_auto_check, _auto_calculation_running,
                   last_changes, edit_vars, ranges_vars, pass_vars, last_count>>

\* a direct call of _calculate_hinge_positions()
CallCalculateHinge ==
    /\ hinge_result' = _calculate_hinge_positions
    /\ done' = done \cup {"hinge"}
    /\ last_op' = "hinge"
    /\ UNCHANGED <<dollar_vars, hinge_count_spin, pm_result, errors, pm_inputs,
                   prev_pm_call, lock_auto_check, lock_y_auto_check,
                   hinge_auto_check, hinge_y_auto_check, pm_auto_check,
                   _auto_calculation_running, pm_exception, last_changes,
                   edit_vars, ranges_vars, pass_vars, last_count>>

\* a validation that also clears the stored position of every flagged PM
run_validation_clears_flagged ==
    /\ errors' = ValidationErrors
    /\ dollar_vars' = [k \in DOMAIN dollar_vars |->
                          IF \E i \in 1..4 : k = pm_position_key[i] /\ ValidationErrors[i]
                          THEN Num(0)
                          ELSE dollar_vars[k]]
    /\ done' = done \cup {"validation"}
    /\ last_op' = "validation"
    /\ UNCHANGED <<hinge_count_spin, pm_result, hinge_result,
                   pm_inputs, prev_pm_call, lock_auto_check, lock_y_auto_check,
                   hinge_auto_check, hinge_y_auto_check, pm_auto_check,
                   _auto_calculation_running, pm_exception, last_changes,
                   edit_vars, ranges_vars, pass_vars, last_count>>

\* run_validation()
run_validation ==
    /\ errors' = ValidationErrors
    /\ done' = done \cup {"validation"}
    /\ last_op' = "validation"
    /\ UNCHANGED <<dollar_vars, hinge_count_spin, pm_result, hinge_result,
                   pm_inputs, prev_pm_call, lock_auto_check, lock_y_auto_check,
                   hinge_auto_check, hinge_y_auto_check, pm_auto_check,
                   _auto_calculation_running, pm_exception, last_changes,
                   edit_vars, ranges_vars, pass_vars, last_count>>

\* on_auto_state_changed(): the user toggles one of the five auto check boxes;
\* update_enabled_states() touches widgets only, then the pass runs
on_auto_state_changed(box) ==
    LET la == IF box = "lock" THEN ~ lock_auto_check ELSE lock_auto_check
        ly == IF box = "lock_y" THEN ~ lock_y_auto_check ELSE lock_y_auto_check
        ha == IF box = "hinge" THEN ~ hinge_auto_check ELSE hinge_auto_check
        hy == IF box = "hinge_y" THEN ~ hinge_y_auto_check ELSE hinge_y_auto_check
        pa == IF box = "pm" THEN ~ pm_auto_check ELSE pm_auto_check
    IN  /\ lock_auto_check' = la
        /\ lock_y_auto_check' = ly
        /\ hinge_auto_check' = ha
        /\ hinge_y_auto_check' = hy
        /\ pm_auto_check' = pa
        /\ run_auto_calculations(la, ly, ha, hy, pa)
        /\ last_op' = "auto_state"
        /\ UNCHANGED <<hinge_count_spin, last_edit, pc, ranges_vars, pass_vars, last_count>>

AutoBoxes == {"lock", "lock_y", "hinge", "hinge_y", "pm"}

\* a direct call of _calculate_valid_ranges(range_start, range_end, obstacles)
CallCalculateValidRanges ==
    /\ vr_result' = _calculate_valid_ranges(vr_args[1], vr_args[2], vr_args[3])
    /\ last_op' = "valid_ranges"
    /\ UNCHANGED <<dollar_vars, hinge_count_spin, pm_result, hinge_result, errors,
                   pm_inputs, prev_pm_call, lock_auto_check, lock_y_auto_check,
                   hinge_auto_check, hinge_y_auto_check, pm_auto_check,
                   _auto_calculation_running, done, pm_exception, last_changes,
                   edit_vars, vr_args, pass_vars, last_count>>

\* main_window.update_dollar_variable(name, value): the store after the
\* update; the 'variables' subscribers are notified
update_dollar_variable(name, value) == (name :> value) @@ dollar_vars

\* a height field whose editingFinished reaches _on_editing_finished only
AfterEditingFinished_not_connected(field) == "idle"

\* connect_signals(): enforce_height_limits is connected to the height
\* field's editingFinished after the field's own _on_editing_finished, so it
\* runs once that slot has returned
AfterEditingFinished(field) == IF field = "frame_height" THEN "enforce" ELSE "idle"

\* SimpleDollarLineEdit._on_editing_finished() of the line edit of `field`
\* holding `text`: a text that does not convert is answered by
\* update_from_main_window(); a converted value goes through
\* on_variable_changed() to update_dollar_variable(), whose notification is
\* delivered before the slot returns
_on_editing_finished(field, text) ==
    LET new_value == ParseText(text)
        stored    == get_dollar_variable(field)
        edit      == [count |-> last_edit.count + 1, field |-> field, text |-> text,
                      before |-> stored, shown |-> field_text[field]]
    IN  /\ pc = "idle"
        /\ ~ _auto_calculation_running
        /\ last_op' = "editing_finished"
        /\ IF new_value = <<>>
           THEN /\ field_text' = [field_text EXCEPT ![field] =
                                     IF stored.t # "none" THEN _format_value(stored)
                                     ELSE text]
                /\ last_edit' = edit @@ [after |-> stored, path |-> "reverted"]
                /\ pc' = AfterEditingFinished(field)
                /\ UNCHANGED dollar_vars
           ELSE /\ dollar_vars' = update_dollar_variable(field, Num(new_value[1]))
                /\ field_text' = [field_text EXCEPT ![field] = text]
                /\ last_edit' = edit @@ [after |-> Num(new_value[1]), path |-> "changed"]
                /\ pc' = "notify_edit"
        /\ UNCHANGED <<hinge_count_spin, pm_result, hinge_result, errors, pm_inputs,
                       prev_pm_call, lock_auto_check, lock_y_auto_check,
                       hinge_auto_check, hinge_y_auto_check, pm_auto_check,
                       _auto_calculation_running, done, pm_exception, last_changes,
                       ranges_vars, pass_vars, last_count>>

\* on_variables_updated(), the subscriber of the 'variables' event, delivered
\* for a single-variable update or for the batch of update_hinge_count, made
\* while no pass is running: update_ui_from_main_window(), the pass (whose
\* own batch update is answered by a nested on_variables_updated that skips
\* the pass), update_preview() and run_validation()
on_variables_updated ==
    /\ pc \in {"notify_edit", "notify_enforce", "notify_hinge_count"}
    /\ AutoPass(lock_auto_check, lock_y_auto_check, hinge_auto_check,
                hinge_y_auto_check, pm_auto_check)
    /\ field_text' = update_ui_from_main_window(field_text, dollar_vars')
    /\ errors' = ValidationErrors'
    /\ done' = done \cup {"auto", "validation"}
                    \cup (IF pm_auto_check THEN PMDone ELSE {})
    /\ last_op' = "variables_updated"
    /\ pc' = IF pc = "notify_edit" THEN AfterEditingFinished(last_edit.field)
             ELSE IF pc = "notify_hinge_count" THEN "hinge_count_pass"
             ELSE "idle"
    /\ UNCHANGED <<hinge_count_spin, lock_auto_check, lock_y_auto_check,
                   hinge_auto_check, hinge_y_auto_check, pm_auto_check, last_edit,
                   ranges_vars, pass_vars, last_count>>

\* limits that enforce the minimum only
enforce_height_limits_min_only ==
    LET frame_height   == get_dollar_variable("frame_height")
        current_height == IF Truthy(frame_height) THEN frame_height.v ELSE 0
        limit == IF frame_height.t = "str" THEN <<mm(MIN_FRAME_HEIGHT)>>
                 ELSE IF current_height < mm(MIN_FRAME_HEIGHT)
                 THEN <<mm(MIN_FRAME_HEIGHT)>>
                 ELSE <<>>
    IN  /\ pc = "enforce"
        /\ last_op' = "enforce_height_limits"
        /\ IF limit # <<>>
           THEN /\ dollar_vars' = update_dollar_variable("frame_height", Num(limit[1]))
                /\ pc' = "notify_enforce"
           ELSE /\ pc' = "idle"
                /\ UNCHANGED dollar_vars
        /\ UNCHANGED <<hinge_count_spin, pm_result, hinge_result, errors, pm_inputs,
                       prev_pm_call, lock_auto_check, lock_y_auto_check,
                       hinge_auto_check, hinge_y_auto_check, pm_auto_check,
                       _auto_calculation_running, done, pm_exception, last_changes,
                       field_text, last_edit, ranges_vars, pass_vars, last_count>>

\* enforce_height_limits(), the second slot of the height field's
\* editingFinished
enforce_height_limits ==
    LET frame_height   == get_dollar_variable("frame_height")
        current_height == IF Truthy(frame_height) THEN frame_height.v ELSE 0
        limit == IF frame_height.t = "str" THEN <<mm(MIN_FRAME_HEIGHT)>>
                 ELSE IF current_height < mm(MIN_FRAME_HEIGHT)
                 THEN <<mm(MIN_FRAME_HEIGHT)>>
                 ELSE IF current_height > mm(MAX_FRAME_HEIGHT)
                 THEN <<mm(MAX_FRAME_HEIGHT)>>
                 ELSE <<>>
    IN  /\ pc = "enforce"
        /\ last_op' = "enforce_height_limits"
        /\ IF limit # <<>>
           THEN /\ dollar_vars' = update_dollar_variable("frame_height", Num(limit[1]))
                /\ pc' = "notify_enforce"
           ELSE /\ pc' = "idle"
                /\ UNCHANGED dollar_vars
        /\ UNCHANGED <<hinge_count_spin, pm_result, hinge_result, errors, pm_inputs,
                       prev_pm_call, lock_auto_check, lock_y_auto_check,
                       hinge_auto_check, hinge_y_auto_check, pm_auto_check,
                       _auto_calculation_running, done, pm_exception, last_changes,
                       field_text, last_edit, ranges_vars, pass_vars, last_count>>

-----------------------------------------------------------------------------
(* Stores and initial states *)

\* at most this many hinges are active in the stores the solver and the
\* validation are applied to
MaxActiveHinges == 2

\* a store with every frame-tab variable set; lengths in units, pm1 a tagged value
StoreOf(h, pm1, pm2, pm3, pm4, la, lp, hinges) ==
    [ frame_height    |-> Num(h),
      frame_width     |-> Num(mm(45)),
      door_width      |-> Num(mm(40)),
      pm1_position    |-> pm1,
      pm2_position    |-> Num(pm2),
      pm3_position    |-> Num(pm3),
      pm4_position    |-> Num(pm4),
      lock_active     |-> Num(la),
      lock_position   |-> Num(lp),
      lock_y_offset   |-> Num(0),
      hinge_y_offset  |-> Num(0),
      hinge1_active   |-> Num(hinges[1][1]),
      hinge1_position |-> Num(hinges[1][2]),
      hinge2_active   |-> Num(hinges[2][1]),
      hinge2_position |-> Num(hinges[2][2]),
      hinge3_active   |-> Num(hinges[3][1]),
      hinge3_position |-> Num(hinges[3][2]),
      hinge4_active   |-> Num(hinges[4][1]),
      hinge4_position |-> Num(hinges[4][2]) ]

\* hinge settings <<active, position>> per hinge: hinges that are not active
\* hold position 0, as update_hinge_count leaves them
HingeConfigs(positions) ==
    { c \in [1..4 -> ({0, 1} \X positions)] :
        /\ Cardinality({i \in 1..4 : c[i][1] = 1}) <= MaxActiveHinges
        /\ \A i \in 1..4 : c[i][1] = 0 => c[i][2] = 0 }

\* the state of the widgets and of the bookkeeping after construction
InitWidgets ==
    /\ hinge_count_spin = 3
    /\ lock_auto_check = TRUE
    /\ lock_y_auto_check = TRUE
    /\ hinge_auto_check = TRUE
    /\ hinge_y_auto_check = TRUE
    /\ pm_auto_check = FALSE
    /\ _auto_calculation_running = FALSE

\* no update_hinge_count yet
NoCount == [runs |-> 0, count |-> 3, changes |-> NoChanges,
            active_before |-> [i \in 1..4 |-> NoneVal]]

\* no edit yet
NoEdit == [count |-> 0, field |-> "", text |-> <<>>, before |-> NoneVal,
           shown |-> <<>>, after |-> NoneVal, path |-> "none"]

InitCallResults ==
    /\ pm_result = <<>>
    /\ hinge_result = <<>>
    /\ errors = [i \in 1..4 |-> FALSE]
    /\ pm_inputs = NoCall.inputs
    /\ prev_pm_call = NoCall
    /\ done = {}
    /\ pm_exception = "none"
    /\ last_op = "init"
    /\ last_changes = NoChanges
    /\ field_text = update_ui_from_main_window([f \in EditFields |-> <<>>], dollar_vars)
    /\ last_edit = NoEdit
    /\ pc = "idle"
    /\ vr_result = <<>>
    /\ pass_pc = "idle"
    /\ pass_changes = NoChanges
    /\ update_calls = 0
    /\ last_count = NoCount

InitResults ==
    /\ InitCallResults
    /\ vr_args = <<0, 0, <<>>>>

-----------------------------------------------------------------------------
(* The placement solver applied to bounded stores *)

SolverHeights == {0, mm(840), mm(1000), mm(2100), mm(2500)}

\* 107.5 puts the span start 120 mm below the interval of a hinge at 600
SolverPM1Values == {NoneVal, Num(mm(-25)), Num(mm(100)), Num((215 * Scale) \div 2),
              Num(mm(300)), Num(mm(450)), Num(mm(600))}

SolverLockPositions == {0, mm(1050)}

SolverHingePositions == {0, mm(150), mm(346), mm(600), mm(640), mm(1800)}

InitSolver ==
    /\ \E h \in SolverHeights, pm1 \in SolverPM1Values, la \in {0, 1},
          lp \in SolverLockPositions, hinges \in HingeConfigs(SolverHingePositions) :
            dollar_vars = StoreOf(h, pm1, 0, 0, 0, la, lp, hinges)
    /\ InitWidgets
    /\ InitResults

NextSolver == CallCalculatePM /\ "pm" \notin done

SpecSolver == InitSolver /\ [][NextSolver]_vars

-----------------------------------------------------------------------------
(* The hinge routine applied to every whole-millimetre frame height *)

InitHinge ==
    /\ \E h \in {0} \cup {mm(x) : x \in MIN_FRAME_HEIGHT..MAX_FRAME_HEIGHT} :
            dollar_vars = StoreOf(h, Num(mm(-25)), 0, 0, 0, 1, mm(1050),
                                  [i \in 1..4 |-> <<0, 0>>])
    /\ hinge_count_spin \in 0..4
    /\ lock_auto_check = TRUE
    /\ lock_y_auto_check = TRUE
    /\ hinge_auto_check = TRUE
    /\ hinge_y_auto_check = TRUE
    /\ pm_auto_check = FALSE
    /\ _auto_calculation_running = FALSE
    /\ InitResults

NextHinge == CallCalculateHinge /\ "hinge" \notin done

SpecHinge == InitHinge /\ [][NextHinge]_vars

-----------------------------------------------------------------------------
(* run_validation applied to bounded stores *)

ValidationHeights == {0, mm(840), mm(2100)}

ValidationPM1 == {mm(-25), mm(300)}

ValidationPM2 == {mm(355) \div 2, mm(320), mm(1005) \div 2}

ValidationPM3 == {mm(335), mm(660), mm(880)}

ValidationPM4 == {mm(1085) \div 2, mm(780), mm(781), mm(2040)}

ValidationLockPositions == {0, mm(1050)}

ValidationHingePositions == {0, mm(150), mm(710)}

InitValidation ==
    /\ \E h \in ValidationHeights, pm1 \in ValidationPM1, pm2 \in ValidationPM2,
          pm3 \in ValidationPM3, pm4 \in ValidationPM4, la \in {0, 1},
          lp \in ValidationLockPositions,
          hinges \in HingeConfigs(ValidationHingePositions) :
            dollar_vars = StoreOf(h, Num(pm1), pm2, pm3, pm4, la, lp, hinges)
    /\ InitWidgets
    /\ InitResults

NextValidation == run_validation /\ "validation" \notin done

SpecValidation == InitValidation /\ [][NextValidation]_vars

-----------------------------------------------------------------------------
(* Repeated solver and validation calls with passes of the                *)
(* auto-calculation in between                                             *)

RepeatHeights == {mm(840), mm(2100)}

RepeatPM1 == {mm(-25), mm(300)}

InitRepeat ==
    /\ \E h \in RepeatHeights, pm1 \in RepeatPM1 :
            dollar_vars = StoreOf(h, Num(pm1), 0, 0, 0, 1, mm(1050),
                                  [i \in 1..4 |-> IF i <= 3 THEN <<1, 0>> ELSE <<0, 0>>])
    /\ InitWidgets
    /\ InitResults

NextRepeat ==
    \/ CallCalculatePM
    \/ run_validation
    \/ \E box \in AutoBoxes : on_auto_state_changed(box)

SpecRepeat == InitRepeat /\ [][NextRepeat]_vars

-----------------------------------------------------------------------------
(* Direct calls and passes on stores whose frame height may be unset, zero *)
(* or negative                                                             *)

EmptyHeights == {NoneVal, Num(0), Num(mm(-100)), Num(mm(2100))}

EmptyPM1 == {NoneVal, Num(mm(300))}

InitEmpty ==
    /\ \E h \in EmptyHeights, pm1 \in EmptyPM1 :
          dollar_vars = [StoreOf(0, pm1, 0, 0, 0, 1, mm(1050),
                                 [i \in 1..4 |-> <<IF i <= 3 THEN 1 ELSE 0, 0>>])
                           EXCEPT !["frame_height"] = h]
    /\ hinge_count_spin \in {0, 3}
    /\ lock_auto_check = TRUE
    /\ lock_y_auto_check = TRUE
    /\ hinge_auto_check = TRUE
    /\ hinge_y_auto_check = TRUE
    /\ pm_auto_check = FALSE
    /\ _auto_calculation_running = FALSE
    /\ InitResults

NextEmpty ==
    \/ CallCalculatePM /\ "pm" \notin done
    \/ CallCalculateHinge /\ "hinge" \notin done
    \/ \E box \in AutoBoxes : on_auto_state_changed(box)

SpecEmpty == InitEmpty /\ [][NextEmpty]_vars

-----------------------------------------------------------------------------
(* The placement solver applied to stores that hold unset and non-numeric *)
(* values                                                                  *)

RaiseHeights == {NoneVal, StrVal, Num(0), Num(mm(840)), Num(mm(2100))}

RaisePM1 == {NoneVal, StrVal, Num(mm(-25)), Num(mm(600))}

RaiseActives == {NoneVal, StrVal, Num(0), Num(1)}

RaisePositions == {NoneVal, StrVal, Num(0), Num(mm(346)), Num(mm(1050))}

InitRaise ==
    /\ \E h \in RaiseHeights, pm1 \in RaisePM1, la \in RaiseActives,
          lp \in RaisePositions, ha \in RaiseActives, hp \in RaisePositions :
          dollar_vars = [StoreOf(0, pm1, 0, 0, 0, 0, 0, [i \in 1..4 |-> <<0, 0>>])
                           EXCEPT !["frame_height"] = h,
                                  !["lock_active"] = la,
                                  !["lock_position"] = lp,
                                  !["hinge2_active"] = ha,
                                  !["hinge2_position"] = hp]
    /\ InitWidgets
    /\ InitResults

NextRaise == CallCalculatePM /\ "pm" \notin done

SpecRaise == InitRaise /\ [][NextRaise]_vars

-----------------------------------------------------------------------------
(* Edits of the height field and of the PM1 field, with the PM auto check  *)
(* box toggled in between                                                  *)

\* at most this many edits are made
MaxEdits == 2

\* texts typed into the height field: empty, not a number, zero, negative,
\* inside the limits (with a leading blank) and above them
HeightTexts ==
    { <<>>, <<"a", "b", "c">>, <<"0">>, <<"-", "5">>, <<" ", "9", "0", "0">>,
      <<"3", "0", "0", "0">> }

\* texts typed into the PM1 field: empty, not a number (two kinds) and a
\* number with two decimals
PM1Texts == { <<>>, <<"a", "b", "c">>, <<"1", ".", "2", ".", "3">>,
              <<"1", "0", ".", "2", "5">> }

EditTexts(field) == IF field = "frame_height" THEN HeightTexts ELSE PM1Texts

EditHeights == {NoneVal, Num(mm(2100))}

EditPM1 == {NoneVal, Num(mm(-25))}

InitEdit ==
    /\ \E h \in EditHeights, pm1 \in EditPM1 :
          dollar_vars = [StoreOf(0, pm1, 0, 0, 0, 1, mm(1050),
                                 [i \in 1..4 |-> <<IF i <= 3 THEN 1 ELSE 0, 0>>])
                           EXCEPT !["frame_height"] = h]
    /\ InitWidgets
    /\ InitResults

NextEdit ==
    \/ \E field \in EditFields : \E text \in EditTexts(field) :
          last_edit.count < MaxEdits /\ _on_editing_finished(field, text)
    \/ on_variables_updated
    \/ enforce_height_limits
    \/ pc = "idle" /\ on_auto_state_changed("pm")

SpecEdit == InitEdit /\ [][NextEdit]_vars

-----------------------------------------------------------------------------
(* _calculate_valid_ranges applied to lists of up to three obstacle        *)
(* intervals with end points on a small grid, in every order               *)

\* the largest coordinate of the grid
MaxCoord == 7

RangeIntervals == { <<s, e>> : s \in 0..MaxCoord, e \in 0..MaxCoord } \ 
                  { <<s, e>> \in (0..MaxCoord) \X (0..MaxCoord) : s >= e }

RangeObstacleLists == UNION { [1..n -> RangeIntervals] : n \in 0..3 }

RangeSpans == { <<2, MaxCoord - 2>>, <<2, MaxCoord - 1>> }

InitRanges ==
    /\ dollar_vars = StoreOf(mm(2100), Num(mm(-25)), 0, 0, 0, 0, 0,
                             [i \in 1..4 |-> <<0, 0>>])
    /\ InitWidgets
    /\ InitCallResults
    /\ \E span \in RangeSpans, obstacles \in RangeObstacleLists :
          vr_args = <<span[1], span[2], obstacles>>

NextRanges == CallCalculateValidRanges /\ last_op # "valid_ranges"

SpecRanges == InitRanges /\ [][NextRanges]_vars

-----------------------------------------------------------------------------
(* Properties *)

\* n half-millimetres in units (202.5 mm = HalfMM(405))
HalfMM(n) == (n * Scale) \div 2

\* the last solver call returned four positions
FourPositions == "pm" \in done /\ Len(pm_result) = 4

\* positions of the active lock and hinges whose stored position is > 0
StoredObstaclePositions ==
    { dollar_vars[k[2]].v : k \in { c \in {<<"lock_active", "lock_position">>}
                                       \cup {<<hinge_active_key[i], hinge_position_key[i]>>
                                                : i \in 1..4} :
                                     /\ dollar_vars[c[1]].t = "num"
                                     /\ dollar_vars[c[1]].v # 0
                                     /\ dollar_vars[c[2]].t = "num"
                                     /\ dollar_vars[c[2]].v > 0 } }

StoredHeightIs(h) == dollar_vars["frame_height"] = Num(mm(h))

StoredPM1Is(p) == dollar_vars["pm1_position"] = Num(mm(p))

NoActiveObstacle ==
    /\ dollar_vars["lock_active"] = Num(0)
    /\ \A i \in 1..4 : dollar_vars[hinge_active_key[i]] = Num(0)

\* C1: whenever the solver returns four positions, consecutive PM centers keep
\* their minimum clearance: PM2 - PM1 >= 202.5, PM3 - PM2 >= 157.5 and
\* PM4 - PM3 >= 207.5.
C1_MinimumClearances ==
    FourPositions =>
        /\ pm_result[2] - pm_result[1] >= HalfMM(405)
        /\ pm_result[3] - pm_result[2] >= HalfMM(315)
        /\ pm_result[4] - pm_result[3] >= HalfMM(415)

\* C2: whenever the solver returns four positions, none of PM2, PM3, PM4 lies
\* strictly inside (pos - 170, pos + 170) of an active lock or hinge with
\* stored position > 0.
C2_NoPMInsideObstacle ==
    FourPositions =>
        \A k \in 2..4 : \A pos \in StoredObstaclePositions :
            ~ (pos - mm(170) < pm_result[k] /\ pm_result[k] < pos + mm(170))

\* C3: whenever the solver returns four positions (fallback included), the
\* returned PM4 is at most frame_height - 60.
C3_PM4WithinFrame ==
    FourPositions => pm_result[4] <= dollar_vars["frame_height"].v - mm(60)

\* C4: whenever the excluded interval [pos - 170, pos + 170] of an active
\* obstacle contains the naive PM2 position PM1 + 202.5, the returned PM2 lies
\* outside that interval (its boundary counting as outside, as for C2) and the
\* returned positions satisfy PM2 < PM3 < PM4.
C4_PM2ShiftedOutOfObstacle ==
    FourPositions =>
        \A pos \in StoredObstaclePositions :
            (/\ pos - mm(170) <= pm_result[1] + HalfMM(405)
             /\ pm_result[1] + HalfMM(405) <= pos + mm(170))
            => /\ ~ (pos - mm(170) < pm_result[2] /\ pm_result[2] < pos + mm(170))
               /\ pm_result[2] < pm_result[3]
               /\ pm_result[3] < pm_result[4]

\* a free stretch of 120 mm exists in the usable span [177.5, 780] of a frame
\* of height 840 with PM1 = -25: it starts at the span start or where an
\* obstacle interval ends, and no obstacle interval reaches into it
FreeStretchAt840 ==
    \E a \in {HalfMM(355)} \cup {pos + mm(170) : pos \in StoredObstaclePositions} :
        /\ a >= HalfMM(355)
        /\ a + mm(120) <= mm(780)
        /\ \A pos \in StoredObstaclePositions :
               ~ (pos - mm(170) < a + mm(120) /\ a < pos + mm(170))

\* C5 as stated: with frame_height = 840 and PM1 = -25 the solver returns
\* exactly the fallback sequence [-25, 177.5, 335, 542.5].
C5_FallbackAt840 ==
    ("pm" \in done /\ StoredHeightIs(840) /\ StoredPM1Is(-25))
        => pm_result = <<mm(-25), HalfMM(355), mm(335), HalfMM(1085)>>

\* C5 amended: with frame_height = 840 and PM1 = -25 the solver returns the
\* fallback sequence [-25, 177.5, 335, 542.5] whenever the active obstacles
\* leave no free stretch of 120 mm in [177.5, 780]; with no active obstacle it
\* returns [-25, 177.5, 572.5, 780].
C5_FallbackAt840WhenBlocked ==
    ("pm" \in done /\ StoredHeightIs(840) /\ StoredPM1Is(-25))
        => /\ ~ FreeStretchAt840
                => pm_result = <<mm(-25), HalfMM(355), mm(335), HalfMM(1085)>>
           /\ StoredObstaclePositions = {}
                => pm_result = <<mm(-25), HalfMM(355), HalfMM(1145), mm(780)>>

C5_Witness ==
    /\ "pm" \in done /\ StoredHeightIs(840) /\ StoredPM1Is(-25)
    /\ ~ FreeStretchAt840
    /\ StoredObstaclePositions # {}
    /\ pm_result = <<mm(-25), HalfMM(355), mm(335), HalfMM(1085)>>

\* C6: with PM1 = -25, lock inactive, no active hinge and frame_height = 2100
\* the solver returns four positions with PM2 - PM1 >= 202.5,
\* PM3 - PM2 >= 157.5 and PM4 - PM3 >= 207.5.
C6_NoObstacles2100 ==
    ("pm" \in done /\ StoredHeightIs(2100) /\ StoredPM1Is(-25) /\ NoActiveObstacle)
        => /\ Len(pm_result) = 4
           /\ pm_result[2] - pm_result[1] >= HalfMM(405)
           /\ pm_result[3] - pm_result[2] >= HalfMM(315)
           /\ pm_result[4] - pm_result[3] >= HalfMM(415)

C6_Witness ==
    /\ "pm" \in done /\ StoredHeightIs(2100) /\ StoredPM1Is(-25) /\ NoActiveObstacle
    /\ pm_result = <<mm(-25), HalfMM(355), HalfMM(3665), mm(2040)>>

\* C7: for every frame height h in [840, 2500] and hinge count n in 1..4 the
\* hinge routine returns exactly n positions, strictly increasing and all in
\* [0, h].
C7_HingePositionsOrdered ==
    ( /\ "hinge" \in done
      /\ dollar_vars["frame_height"].v >= mm(840)
      /\ dollar_vars["frame_height"].v <= mm(2500)
      /\ hinge_count_spin \in 1..4 )
        => /\ Len(hinge_result) = hinge_count_spin
           /\ \A i \in 1..Len(hinge_result) : \A j \in 1..Len(hinge_result) :
                  i < j => hinge_result[i] < hinge_result[j]
           /\ \A i \in 1..Len(hinge_result) :
                  /\ 0 <= hinge_result[i]
                  /\ hinge_result[i] <= dollar_vars["frame_height"].v * HingeDen

C7_Witness ==
    /\ "hinge" \in done
    /\ StoredHeightIs(840)
    /\ hinge_count_spin = 4
    /\ Len(hinge_result) = 4
    /\ hinge_result[4] = mm(640) * HingeDen

\* stored PM position k and stored frame height as numbers (0 when unset)
StoredPM(k) == IF dollar_vars[pm_position_key[k]].t = "num"
               THEN dollar_vars[pm_position_key[k]].v ELSE 0

StoredHeight == IF dollar_vars["frame_height"].t = "num"
                THEN dollar_vars["frame_height"].v ELSE 0

NearObstacle(k) ==
    \E pos \in StoredObstaclePositions :
        /\ StoredPM(k) - pos < mm(170)
        /\ pos - StoredPM(k) < mm(170)

PairTooClose(i, j, n) == StoredPM(j) - StoredPM(i) < HalfMM(n)

InClosePair(k) ==
    \/ k \in {1, 2} /\ PairTooClose(1, 2, 405)
    \/ k \in {2, 3} /\ PairTooClose(2, 3, 315)
    \/ k \in {3, 4} /\ PairTooClose(3, 4, 415)

\* C8 as stated: run_validation flags PM4 whenever the stored pm4_position is
\* greater than the stored frame_height - 60, for every stored frame height.
C8_PM4FlaggedAnyHeight ==
    "validation" \in done => (StoredPM(4) > StoredHeight - mm(60) => errors[4])

\* C8 amended: run_validation flags PM4 whenever the stored frame_height is
\* > 0 and the stored pm4_position is greater than frame_height - 60.
C8_PM4FlaggedPositiveHeight ==
    "validation" \in done =>
        ((StoredHeight > 0 /\ StoredPM(4) > StoredHeight - mm(60)) => errors[4])

C8_Witness ==
    /\ "validation" \in done
    /\ StoredHeight > 0
    /\ StoredPM(4) > StoredHeight - mm(60)
    /\ ~ InClosePair(4)
    /\ ~ NearObstacle(4)
    /\ errors[4]

\* C9: run_validation flags PM k if and only if (a) it belongs to a consecutive
\* pair whose distance is below that pair's minimum, or (b) it is closer than
\* 170 to the position of an active lock/hinge with position > 0, or (c) k = 4,
\* frame_height > 0 and PM4 > frame_height - 60.
C9_FlagsExact ==
    "validation" \in done =>
        \A k \in 1..4 :
            errors[k] <=> \/ InClosePair(k)
                          \/ NearObstacle(k)
                          \/ (k = 4 /\ StoredHeight > 0
                                /\ StoredPM(4) > StoredHeight - mm(60))

C9_Witness ==
    /\ "validation" \in done
    /\ NearObstacle(2) /\ ~ InClosePair(2) /\ errors[2]
    /\ ~ errors[1] /\ ~ errors[3]
    /\ \E pos \in StoredObstaclePositions : StoredPM(3) - pos = mm(170)

PM1Input == IF dollar_vars["pm1_position"].t = "num"
            THEN dollar_vars["pm1_position"].v
            ELSE mm(-25)

\* the usable span [PM1 + 202.5, frame_height - 60] is degenerate
DegenerateSpan == StoredHeight - mm(60) <= PM1Input + HalfMM(405)

\* a free stretch of 120 mm exists in the usable span: it starts at the span
\* start or where an obstacle interval ends, and no obstacle interval reaches
\* into it
FreeStretch ==
    \E a \in {PM1Input + HalfMM(405)}
               \cup {pos + mm(170) : pos \in StoredObstaclePositions} :
        /\ a >= PM1Input + HalfMM(405)
        /\ a + mm(120) <= StoredHeight - mm(60)
        /\ \A pos \in StoredObstaclePositions :
               ~ (pos - mm(170) < a + mm(120) /\ a < pos + mm(170))

InvalidStoredHeight ==
    \/ dollar_vars["frame_height"].t = "none"
    \/ dollar_vars["frame_height"].t = "num" /\ dollar_vars["frame_height"].v <= 0

\* C12: when the stored frame height is unset, zero or negative, the solver
\* and the hinge routine return an empty list (the hinge routine also for a
\* hinge count <= 0), and a run_auto_calculations pass writes no pmK_position
\* and no hingeK_position variable.
C12_EmptyForInvalidHeight ==
    /\ InvalidStoredHeight
         => /\ "pm" \in done => pm_result = <<>>
            /\ "hinge" \in done => hinge_result = <<>>
            /\ "auto" \in done
                 => \A i \in 1..4 : /\ pm_position_key[i] \notin DOMAIN last_changes
                                    /\ hinge_position_key[i] \notin DOMAIN last_changes
    /\ (hinge_count_spin <= 0 /\ "hinge" \in done) => hinge_result = <<>>

C12_Witness ==
    /\ InvalidStoredHeight
    /\ hinge_count_spin = 3
    /\ "pm" \in done /\ "hinge" \in done
    /\ last_op = "auto_state" /\ pm_auto_check /\ hinge_auto_check
    /\ "lock_position" \in DOMAIN last_changes
    /\ pm_result = <<>> /\ hinge_result = <<>>

\* C13: no exception propagates out of _calculate_pm_positions: for every
\* combination of stored values of frame_height, pm1_position and the
\* lock/hinge variables, unset and non-numeric values included, the call
\* returns an empty list or a list of four positions.
C13_NoExceptionPropagates ==
    "pm" \in done => /\ pm_exception = "none"
                     /\ Len(pm_result) \in {0, 4}

\* the last edit has been handled completely and nothing has acted since
EditHandled ==
    /\ pc = "idle"
    /\ last_op \in {"editing_finished", "variables_updated", "enforce_height_limits"}

\* texts that are not a number: empty, letters, two decimal points
NonNumberTexts == { <<>>, <<"a", "b", "c">>, <<"1", ".", "2", ".", "3">> }

\* a height brought into [840, 2500]; an unset height counts as below 840
HeightInLimits(value) ==
    IF value.t = "none" \/ value.v < mm(840) THEN Num(mm(840))
    ELSE IF value.v > mm(2500) THEN Num(mm(2500))
    ELSE value

ZeroOrNegativeHeightEntered ==
    /\ EditHandled
    /\ last_edit.field = "frame_height"
    /\ last_edit.text \in { <<"0">>, <<"-", "5">> }

C16_HeightWithinLimits ==
    (EditHandled /\ last_edit.field = "frame_height")
        => /\ dollar_vars["frame_height"].t = "num"
           /\ dollar_vars["frame_height"].v >= mm(840)
           /\ dollar_vars["frame_height"].v <= mm(2500)
           /\ dollar_vars["frame_height"] = HeightInLimits(last_edit.after)

C16_Witness ==
    /\ EditHandled
    /\ last_edit.field = "frame_height"
    /\ last_edit.text = <<"3", "0", "0", "0">>
    /\ last_edit.after = Num(mm(3000))
    /\ dollar_vars["frame_height"] = Num(mm(2500))

\* C17: PM1 is never moved by auto-positioning: the first element of every
\* non-empty solver output equals the PM1 input (-25 when pm1_position is
\* unset), and a run_auto_calculations pass with PM auto enabled leaves an
\* already stored pm1_position at exactly its previous value.
C17_PM1NeverMoved ==
    [][ /\ ("pm" \in done' /\ pm_result' # <<>>)
             => pm_result'[1] = IF pm_inputs'["pm1_position"].t = "none"
                                THEN mm(-25)
                                ELSE pm_inputs'["pm1_position"].v
        /\ ( /\ last_op' \in {"auto_state", "variables_updated"}
             /\ pm_auto_check'
             /\ dollar_vars["pm1_position"].t = "num" )
             => dollar_vars'["pm1_position"] = dollar_vars["pm1_position"] ]_vars

\* C18: neither a call of the placement solver nor a call of run_validation
\* modifies any stored variable: the store is identical before and after the
\* call.
C18_SolverAndValidationLeaveStore ==
    [][ last_op' \in {"pm", "validation"} => dollar_vars' = dollar_vars ]_vars

C18_Witness ==
    /\ last_op = "validation"
    /\ "pm" \in done /\ "auto" \in done
    /\ \E i \in 1..4 : errors[i]
    /\ dollar_vars["pm2_position"] # Num(0)

\* the last hinge position the claim names, over HingeDen
ClaimedLastHinge ==
    IF dollar_vars["frame_height"].v >= mm(2000)
    THEN mm(1800) * HingeDen
    ELSE (dollar_vars["frame_height"].v - mm(200)) * HingeDen

\* C19: hinge spacing follows fixed 1.5x ratios.  For 3 hinges at
\* p1 < p2 < p3: p1 = 150, p3 = 1800 if frame_height >= 2000 else
\* frame_height - 200, and p3 - p2 = 1.5 * (p2 - p1).  For 4 hinges with the
\* same first and last positions: p3 - p2 = 1.5 * (p2 - p1) and
\* p4 - p3 = 1.5 * (p3 - p2).
C19_HingeRatios ==
    ( /\ "hinge" \in done
      /\ dollar_vars["frame_height"].v >= mm(840) )
        => /\ hinge_count_spin = 3
                => /\ Len(hinge_result) = 3
                   /\ hinge_result[1] = mm(150) * HingeDen
                   /\ hinge_result[3] = ClaimedLastHinge
                   /\ 2 * (hinge_result[3] - hinge_result[2])
                        = 3 * (hinge_result[2] - hinge_result[1])
           /\ hinge_count_spin = 4
                => /\ Len(hinge_result) = 4
                   /\ hinge_result[1] = mm(150) * HingeDen
                   /\ hinge_result[4] = ClaimedLastHinge
                   /\ 2 * (hinge_result[3] - hinge_result[2])
                        = 3 * (hinge_result[2] - hinge_result[1])
                   /\ 2 * (hinge_result[4] - hinge_result[3])
                        = 3 * (hinge_result[3] - hinge_result[2])

C19_Witness ==
    /\ "hinge" \in done
    /\ hinge_count_spin = 4
    /\ StoredHeightIs(1900)
    /\ Len(hinge_result) = 4
    /\ hinge_result[4] = mm(1700) * HingeDen
    /\ hinge_result[1] < hinge_result[2]
    /\ hinge_result[2] < hinge_result[3]
    /\ hinge_result[3] < hinge_result[4]

\* C20: _calculate_valid_ranges(range_start, range_end, obstacles) returns
\* exactly the obstacle-free part of the usable span: the returned ranges are
\* sorted ascending, pairwise disjoint, each of positive length and contained
\* in [range_start, range_end]; no returned range intersects the interior of
\* any obstacle interval; every point of the span not covered by an obstacle
\* interval lies in some returned range (checked on the grid points and the
\* points halfway between them); with no obstacles the result is the single
\* range (range_start, range_end).
C20_ValidRangesExact ==
    last_op = "valid_ranges"
        => LET range_start == vr_args[1]
               range_end   == vr_args[2]
               obstacles   == vr_args[3]
               R           == vr_result
           IN  /\ \A i \in 1..Len(R) : \A j \in 1..Len(R) :
                      i < j => R[i][2] <= R[j][1]
               /\ \A i \in 1..Len(R) :
                      /\ R[i][1] < R[i][2]
                      /\ range_start <= R[i][1]
                      /\ R[i][2] <= range_end
               /\ \A i \in 1..Len(R) : \A k \in 1..Len(obstacles) :
                      ~ (obstacles[k][1] < R[i][2] /\ R[i][1] < obstacles[k][2])
               /\ \A q \in (2 * range_start)..(2 * range_end) :
                      (\A k \in 1..Len(obstacles) :
                           ~ (2 * obstacles[k][1] <= q /\ q <= 2 * obstacles[k][2]))
                        => \E i \in 1..Len(R) : 2 * R[i][1] <= q /\ q <= 2 * R[i][2]
               /\ obstacles = <<>> => R = << <<range_start, range_end>> >>

\* a nested, an out-of-span and an overlapping obstacle, not in start order
C20_Witness ==
    /\ last_op = "valid_ranges"
    /\ vr_args = <<2, 6, << <<4, 5>>, <<0, 1>>, <<3, 5>> >> >>
    /\ vr_result = << <<2, 3>>, <<5, 6>> >>

-----------------------------------------------------------------------------
(* PM4 placement *)

\* the usable span of the solver for the stored height and PM1
SpanStart == PM1Input + HalfMM(405)

SpanEnd == StoredHeight - mm(60)

\* no obstacle interval reaches into the open stretch (a, b)
ClearBetween(a, b) ==
    \A pos \in StoredObstaclePositions :
        ~ (pos - mm(170) < b /\ a < pos + mm(170))

\* the upper ends of the free stretches of the span that are at least 120 long:
\* such a stretch ends at the span end or where an obstacle interval starts
KeptRangeEnds ==
    { b \in {SpanEnd} \cup {pos - mm(170) : pos \in StoredObstaclePositions} :
        /\ b <= SpanEnd
        /\ \E a \in {SpanStart} \cup {pos + mm(170) : pos \in StoredObstaclePositions} :
               /\ a >= SpanStart
               /\ b - a >= mm(120)
               /\ ClearBetween(a, b) }

MaxOf(S) == CHOOSE x \in S : \A y \in S : y <= x

\* the solver is applied to a valid height and does not take a fallback
NonFallbackPath ==
    "pm" \in done /\ StoredHeight > 0 /\ ~ DegenerateSpan /\ KeptRangeEnds # {}

\* an obstacle interval covers the top of the span (margin 0) or reaches into
\* the stretch of the given length below it
ObstacleInTop(margin) ==
    \E pos \in StoredObstaclePositions :
        /\ pos - mm(170) < SpanEnd
        /\ IF margin = 0 THEN pos + mm(170) >= SpanEnd
                         ELSE pos + mm(170) > SpanEnd - margin

\* C21 as stated: on the non-fallback path PM4 is the end of the last valid
\* range of length >= 120 (a range of exactly 120 is kept), and whenever no
\* obstacle interval reaches the top of the span PM4 is frame_height - 60.
C21_PM4AtTopWhenNotReached ==
    NonFallbackPath
        => /\ Len(pm_result) = 4
           /\ pm_result[4] = MaxOf(KeptRangeEnds)
           /\ ~ ObstacleInTop(0) => pm_result[4] = StoredHeight - mm(60)

\* C21 amended: on the non-fallback path PM4 is the end of the last valid
\* range of length >= 120 (a range of exactly 120 is kept); it is
\* frame_height - 60 when no obstacle interval reaches into the top 120 mm of
\* the span, and lies below frame_height - 60 when one does.
C21_PM4AtLastKeptRangeEnd ==
    NonFallbackPath
        => /\ Len(pm_result) = 4
           /\ pm_result[4] = MaxOf(KeptRangeEnds)
           /\ ~ ObstacleInTop(mm(120)) => pm_result[4] = StoredHeight - mm(60)
           /\ ObstacleInTop(mm(120)) => pm_result[4] < StoredHeight - mm(60)

\* the only kept range is [310, 430], exactly 120 long, below a hinge at 600
C21_Witness ==
    /\ NonFallbackPath
    /\ StoredHeightIs(840)
    /\ SpanStart = mm(310)
    /\ StoredObstaclePositions = {mm(600)}
    /\ KeptRangeEnds = {mm(430)}
    /\ pm_result[4] = mm(430)

-----------------------------------------------------------------------------
(* PM2 and PM3: snapping *)

\* the free stretches of the span that are at least 120 long, as (start, end)
KeptRanges ==
    { r \in ({SpanStart} \cup {pos + mm(170) : pos \in StoredObstaclePositions})
            \X ({SpanEnd} \cup {pos - mm(170) : pos \in StoredObstaclePositions}) :
        /\ r[1] >= SpanStart
        /\ r[2] <= SpanEnd
        /\ r[2] - r[1] >= mm(120)
        /\ ClearBetween(r[1], r[2]) }

InKeptRange(x) == \E r \in KeptRanges : r[1] <= x /\ x <= r[2]

MinOf(S) == CHOOSE x \in S : \A y \in S : x <= y

\* the initial candidates
CandidatePM2 == PM1Input + HalfMM(405)

CandidatePM3 == pm_result[4] - HalfMM(415)

\* a candidate outside every range goes to the nearest boundary in its own
\* direction, when there is one
ExpectedSnapPM2 ==
    LET starts == { r[1] : r \in { q \in KeptRanges : q[1] >= CandidatePM2 } }
    IN  IF InKeptRange(CandidatePM2) \/ starts = {} THEN CandidatePM2
        ELSE MinOf(starts)

ExpectedSnapPM3 ==
    LET ends == { r[2] : r \in { q \in KeptRanges : q[2] <= CandidatePM3 } }
    IN  IF InKeptRange(CandidatePM3) \/ ends = {} THEN CandidatePM3
        ELSE MaxOf(ends)

-----------------------------------------------------------------------------
(* PM2 and PM3: re-centering *)

\* the snapped pair is closer than the PM2-PM3 minimum
SnappedGapTooSmall ==
    NonFallbackPath /\ ExpectedSnapPM3 - ExpectedSnapPM2 < HalfMM(315)

\* C23: when after snapping PM3 - PM2 is still below 157.5, the pair returned
\* by the solver satisfies PM3 - PM2 = 157.5.
C23_RecenteredGapExact ==
    SnappedGapTooSmall => pm_result[3] - pm_result[2] = HalfMM(315)

\* the pair re-centered around the midpoint of the snapped pair, 78.75 each way
RecenteredPM2 == (ExpectedSnapPM2 + ExpectedSnapPM3) \div 2 - HalfMM(315) \div 2

RecenteredPM3 == (ExpectedSnapPM2 + ExpectedSnapPM3) \div 2 + HalfMM(315) \div 2

\* C23 amended: when the initial gap is already below 157.5 the solver neither
\* snaps nor re-centers and returns PM1 + 202.5 and PM1 + 360; when the gap
\* falls below 157.5 only after snapping, the pair is re-centered around its
\* midpoint, a re-centered PM2 outside every valid range is replaced by
\* PM1 + 202.5 and a re-centered PM3 outside every valid range by PM2 + 157.5.
\* The returned pair satisfies PM3 - PM2 >= 157.5, with equality unless PM2 is
\* replaced while the re-centered PM3 is kept.
C23_RecenteredGapAtLeast ==
    SnappedGapTooSmall
        => /\ pm_result[3] - pm_result[2] >= HalfMM(315)
           /\ CandidatePM3 - CandidatePM2 < HalfMM(315)
                => /\ pm_result[2] = PM1Input + HalfMM(405)
                   /\ pm_result[3] = PM1Input + mm(360)
           /\ CandidatePM3 - CandidatePM2 >= HalfMM(315)
                => /\ pm_result[2] = IF InKeptRange(RecenteredPM2)
                                     THEN RecenteredPM2
                                     ELSE PM1Input + HalfMM(405)
                   /\ pm_result[3] = IF InKeptRange(RecenteredPM3)
                                     THEN RecenteredPM3
                                     ELSE pm_result[2] + HalfMM(315)
           /\ ~ ( /\ CandidatePM3 - CandidatePM2 >= HalfMM(315)
                  /\ ~ InKeptRange(RecenteredPM2)
                  /\ InKeptRange(RecenteredPM3) )
                => pm_result[3] - pm_result[2] = HalfMM(315)

\* height 840, hinge at 346: PM2 is snapped to 516, the pair (516, 572.5) is
\* re-centered to (465.5, 623), PM2 is replaced by 177.5 and PM3 is kept
C23_Witness ==
    /\ SnappedGapTooSmall
    /\ StoredHeightIs(840)
    /\ ExpectedSnapPM2 = mm(516)
    /\ ExpectedSnapPM3 = HalfMM(1145)
    /\ RecenteredPM3 = mm(623)
    /\ pm_result = <<mm(-25), HalfMM(355), mm(623), mm(780)>>

-----------------------------------------------------------------------------
(* The pass as a fixed point *)

\* the handling of a variable change has completed with hinge auto and PM
\* auto both enabled
ChangeHandled ==
    /\ last_op = "variables_updated"
    /\ pc = "idle"
    /\ hinge_auto_check /\ pm_auto_check
    /\ pm_exception = "none"

\* C24: once the handling of a variable change has completed with hinge auto
\* and PM auto enabled, the stored PM positions are what the solver returns
\* for the stored values, and another run_auto_calculations would change no
\* stored variable.
C24_PassIsFixedPoint ==
    ChangeHandled
        => /\ \A k \in DOMAIN PMChanges(TRUE) :
                  dollar_vars[k] = PMChanges(TRUE)[k]
           /\ update_dollar_variables(
                  AutoChanges(lock_auto_check, lock_y_auto_check, hinge_auto_check,
                              hinge_y_auto_check, pm_auto_check)) = dollar_vars

-----------------------------------------------------------------------------
(* The pass step by step *)

\* the nested run_auto_calculations never finds a pass running
run_auto_calculations_blocked_never == FALSE

\* 'if self._auto_calculation_running: return'
run_auto_calculations_blocked == _auto_calculation_running

\* run_validation meets a string in an order comparison or a subtraction and
\* raises TypeError
run_validation_raises ==
    \/ \E i \in 1..4 : get_dollar_variable(pm_position_key[i]).t = "str"
    \/ get_dollar_variable("frame_height").t = "str"
    \/ /\ Truthy(get_dollar_variable("lock_active"))
       /\ get_dollar_variable("lock_position").t = "str"
    \/ \E i \in 1..4 : /\ Truthy(get_dollar_variable(hinge_active_key[i]))
                       /\ get_dollar_variable(hinge_position_key[i]).t = "str"

\* run_auto_calculations() up to the end of step 5: the guard, the flag, the
\* changes dict; an exception of the solver leaves the try block at once
PassBegin(la, ly, ha, hy, pa) ==
    /\ pass_pc = "idle"
    /\ ~ run_auto_calculations_blocked
    /\ _auto_calculation_running' = TRUE
    /\ update_calls' = 0
    /\ IF pa /\ _calculate_pm_positions_raises
       THEN pass_pc' = "raised" /\ pass_changes' = NoChanges
       ELSE pass_pc' = "collected" /\ pass_changes' = AutoChanges(la, ly, ha, hy, pa)
    /\ hinge_result' = IF ha THEN _calculate_hinge_positions ELSE hinge_result
    /\ IF pa THEN RecordPMCall
             ELSE UNCHANGED <<pm_result, pm_inputs, prev_pm_call, pm_exception>>

\* on_auto_state_changed() up to that point
on_auto_state_changed_begin(box) ==
    LET la == IF box = "lock" THEN ~ lock_auto_check ELSE lock_auto_check
        ly == IF box = "lock_y" THEN ~ lock_y_auto_check ELSE lock_y_auto_check
        ha == IF box = "hinge" THEN ~ hinge_auto_check ELSE hinge_auto_check
        hy == IF box = "hinge_y" THEN ~ hinge_y_auto_check ELSE hinge_y_auto_check
        pa == IF box = "pm" THEN ~ pm_auto_check ELSE pm_auto_check
    IN  /\ lock_auto_check' = la
        /\ lock_y_auto_check' = ly
        /\ hinge_auto_check' = ha
        /\ hinge_y_auto_check' = hy
        /\ pm_auto_check' = pa
        /\ PassBegin(la, ly, ha, hy, pa)
        /\ done' = done \cup {"auto"} \cup (IF pa THEN PMDone ELSE {})
        /\ last_op' = "pass_begin"
        /\ UNCHANGED <<dollar_vars, hinge_count_spin, errors, last_changes,
                       edit_vars, ranges_vars, last_count>>

\* 'if changes and self.main_window: update_dollar_variables(changes)': the
\* store is written, its subscribers are about to be notified
PassApply ==
    /\ pass_pc = "collected"
    /\ IF DOMAIN pass_changes # {}
       THEN /\ dollar_vars' = update_dollar_variables(pass_changes)
            /\ update_calls' = update_calls + 1
            /\ pass_pc' = "notify"
       ELSE /\ UNCHANGED <<dollar_vars, update_calls>>
            /\ pass_pc' = "finally"
    /\ last_op' = "pass_apply"
    /\ UNCHANGED <<hinge_count_spin, pm_result, hinge_result, errors, pm_inputs,
                   prev_pm_call, lock_auto_check, lock_y_auto_check,
                   hinge_auto_check, hinge_y_auto_check, pm_auto_check,
                   _auto_calculation_running, done, pm_exception, last_changes,
                   edit_vars, ranges_vars, pass_changes, last_count>>

\* on_variables_updated() called by the store while the pass is inside
\* update_dollar_variables: the line edits are refreshed, run_auto_calculations
\* is called again, run_validation runs.  A nested pass that is not stopped by
\* the guard collects and writes its own batch.
PassNotified ==
    LET nested == AutoChanges(lock_auto_check, lock_y_auto_check, hinge_auto_check,
                              hinge_y_auto_check, pm_auto_check)
    IN  /\ pass_pc = "notify"
        /\ field_text' = update_ui_from_main_window(field_text, dollar_vars)
        /\ IF run_auto_calculations_blocked \/ DOMAIN nested = {}
           THEN UNCHANGED <<dollar_vars, update_calls>>
           ELSE /\ dollar_vars' = update_dollar_variables(nested)
                /\ update_calls' = update_calls + 1
        /\ IF run_validation_raises'
           THEN /\ pass_pc' = "raised"
                /\ UNCHANGED <<errors, done>>
           ELSE /\ pass_pc' = "finally"
                /\ errors' = ValidationErrors'
                /\ done' = done \cup {"validation"}
        /\ last_op' = "pass_notified"
        /\ UNCHANGED <<hinge_count_spin, pm_result, hinge_result, pm_inputs,
                       prev_pm_call, lock_auto_check, lock_y_auto_check,
                       hinge_auto_check, hinge_y_auto_check, pm_auto_check,
                       _auto_calculation_running, pm_exception, last_changes,
                       last_edit, pc, ranges_vars, pass_changes, last_count>>

\* 'finally: self._auto_calculation_running = False', on the normal way out
\* and on the way out of an exception
PassFinally ==
    /\ pass_pc \in {"finally", "raised"}
    /\ _auto_calculation_running' = FALSE
    /\ last_changes' = pass_changes
    /\ pass_pc' = "idle"
    /\ last_op' = IF pass_pc = "raised" THEN "pass_raised" ELSE "pass_end"
    /\ UNCHANGED <<dollar_vars, hinge_count_spin, pm_result, hinge_result, errors,
                   pm_inputs, prev_pm_call, lock_auto_check, lock_y_auto_check,
                   hinge_auto_check, hinge_y_auto_check, pm_auto_check, done,
                   pm_exception, edit_vars, ranges_vars, pass_changes, update_calls,
                   last_count>>

ReentryHeights == {NoneVal, Num(mm(840)), Num(mm(2100))}

ReentryPM1 == {Num(mm(-25)), StrVal}

InitReentry ==
    /\ \E h \in ReentryHeights, pm1 \in ReentryPM1 :
          dollar_vars = [StoreOf(0, pm1, 0, 0, 0, 1, mm(1050),
                                 [i \in 1..4 |-> <<IF i <= 3 THEN 1 ELSE 0, 0>>])
                           EXCEPT !["frame_height"] = h]
    /\ InitWidgets
    /\ InitResults

NextReentry ==
    \/ \E box \in AutoBoxes : on_auto_state_changed_begin(box)
    \/ PassApply
    \/ PassNotified
    \/ PassFinally

SpecReentry == InitReentry /\ [][NextReentry]_vars

\* C25: a run_auto_calculations call made while a pass is in progress (the
\* on_variables_updated fired by the pass's own store update) computes and
\* writes nothing; a pass issues at most one update_dollar_variables call and
\* none when it has no changes; _auto_calculation_running is False whenever
\* no pass is executing, also after a pass that ended with an exception.
C25_PassNotReentrant ==
    [][ /\ pass_pc = "notify"
            => /\ dollar_vars' = dollar_vars
               /\ pm_result' = pm_result
               /\ hinge_result' = hinge_result
               /\ update_calls' = update_calls
        /\ update_calls' <= 1
        /\ (pass_pc' \in {"finally", "idle"} /\ DOMAIN pass_changes' = {})
            => update_calls' = 0
        /\ pass_pc' = "idle" => ~ _auto_calculation_running' ]_vars

\* the nested call has been made with the flag set and one update issued
C25_Witness ==
    /\ last_op = "pass_notified"
    /\ pass_pc = "finally"
    /\ _auto_calculation_running
    /\ update_calls = 1
    /\ DOMAIN pass_changes # {}

-----------------------------------------------------------------------------
(* The height field: clamping and the subscribers *)

\* the stored frame height is a number within [840, 2500]
StoredHeightWithinLimits ==
    /\ dollar_vars["frame_height"].t = "num"
    /\ dollar_vars["frame_height"].v >= mm(MIN_FRAME_HEIGHT)
    /\ dollar_vars["frame_height"].v <= mm(MAX_FRAME_HEIGHT)

-----------------------------------------------------------------------------
(* The PM1-PM2 clearance *)

\* C27: on every path of the solver that returns four positions (normal,
\* early return, snapping, re-centering, fallback) the returned PM2 satisfies
\* PM2 >= PM1 + 202.5.
C27_PM2ClearOfPM1 ==
    FourPositions
        => /\ pm_result[1] = PM1Input
           /\ pm_result[2] >= pm_result[1] + HalfMM(405)

\* the re-centering path: height 1000, PM1 = 107.5, hinge at 600; the snapped
\* pair (310, 430) is re-centered to (291.25, 448.75) and PM2 is put back at 310
C27_Witness ==
    /\ FourPositions
    /\ SnappedGapTooSmall
    /\ StoredHeightIs(1000)
    /\ CandidatePM3 - CandidatePM2 >= HalfMM(315)
    /\ ExpectedSnapPM2 = mm(310)
    /\ ExpectedSnapPM3 = mm(430)
    /\ RecenteredPM2 < PM1Input + HalfMM(405)
    /\ pm_result[2] = PM1Input + HalfMM(405)

-----------------------------------------------------------------------------
(* Obstacles: solver and validation *)

\* the unfiltered valid ranges the solver computes for the stored values
StoredValidRanges ==
    _calculate_valid_ranges(SpanStart, SpanEnd, SolverObstacles)

\* the obstacle check of run_validation alone
ObstacleFlags ==
    ObstacleLoop(1, ValidationPMPositions, ValidationObstacles,
                 [i \in 1..4 |-> FALSE])

\* C28: the solver and the validation take the same obstacles, the active
\* lock and the active hinges with a stored position > 0, with a clearance of
\* 170 on both sides; a stored PM position that lies in a valid range of the
\* solver, boundaries included, is not flagged by the obstacle check of
\* run_validation.
C28_ObstaclesAgree ==
    "validation" \in done
        => /\ Len(SolverObstacles) = Len(ValidationObstacles)
           /\ \A i \in 1..Len(SolverObstacles) :
                  SolverObstacles[i] = <<ValidationObstacles[i] - mm(170),
                                         ValidationObstacles[i] + mm(170)>>
           /\ {ValidationObstacles[i] : i \in 1..Len(ValidationObstacles)}
                  = StoredObstaclePositions
           /\ \A k \in 1..4 :
                  _position_in_valid_ranges(StoredPM(k), StoredValidRanges)
                      => /\ ~ ObstacleFlags[k]
                         /\ errors[k]
                              => \/ InClosePair(k)
                                 \/ (k = 4 /\ StoredPM(4) > StoredHeight - mm(60))

\* PM3 sits on the lower boundary 880 of the lock's interval, the end of a
\* valid range, and is not flagged
C28_Witness ==
    /\ "validation" \in done
    /\ StoredObstaclePositions = {mm(1050)}
    /\ StoredPM(3) = mm(880)
    /\ \E i \in 1..Len(StoredValidRanges) : StoredValidRanges[i][2] = mm(880)
    /\ ~ errors[3]

-----------------------------------------------------------------------------
(* The hinge count *)

\* a changes dict that leaves the stored positions of the unused hinges alone
HingeCountChanges_keeps_positions(count) ==
    LET newly_active == { i \in 1..count :
                            \/ get_dollar_variable(hinge_active_key[i]).t = "none"
                            \/ get_dollar_variable(hinge_active_key[i]) = Num(0) }
    IN  [k \in {hinge_active_key[i] : i \in newly_active}
               \cup {hinge_active_key[i] : i \in (count + 1)..4} |->
            IF \E i \in newly_active : k = hinge_active_key[i] THEN Num(1) ELSE Num(0)]

\* the changes dict of update_hinge_count(count): hinges 1..count are set
\* active when their flag is None or 0, hinges above count get flag 0 and
\* position 0
HingeCountChanges(count) ==
    LET newly_active == { i \in 1..count :
                            \/ get_dollar_variable(hinge_active_key[i]).t = "none"
                            \/ get_dollar_variable(hinge_active_key[i]) = Num(0) }
    IN  [k \in {hinge_active_key[i] : i \in newly_active}
               \cup {hinge_active_key[i] : i \in (count + 1)..4}
               \cup {hinge_position_key[i] : i \in (count + 1)..4} |->
            IF \E i \in newly_active : k = hinge_active_key[i] THEN Num(1) ELSE Num(0)]

\* update_hinge_count(count), the slot of the spin box's valueChanged, up to
\* its update_dollar_variables call; the notification of that update and the
\* closing run_auto_calculations follow as steps of their own
update_hinge_count(count) ==
    LET changes == HingeCountChanges(count)
    IN  /\ pc = "idle"
        /\ hinge_count_spin' = count
        /\ dollar_vars' = update_dollar_variables(changes)
        /\ last_count' = [runs |-> last_count.runs + 1, count |-> count,
                          changes |-> changes,
                          active_before |->
                              [i \in 1..4 |-> get_dollar_variable(hinge_active_key[i])]]
        /\ pc' = IF DOMAIN changes # {} THEN "notify_hinge_count"
                 ELSE "hinge_count_pass"
        /\ done' = done \cup {"hinge_count"}
        /\ last_op' = "update_hinge_count"
        /\ UNCHANGED <<pm_result, hinge_result, errors, pm_inputs, prev_pm_call,
                       lock_auto_check, lock_y_auto_check, hinge_auto_check,
                       hinge_y_auto_check, pm_auto_check, _auto_calculation_running,
                       pm_exception, last_changes, field_text, last_edit,
                       ranges_vars, pass_vars>>

\* the run_auto_calculations() call that closes update_hinge_count
update_hinge_count_pass ==
    /\ pc = "hinge_count_pass"
    /\ run_auto_calculations(lock_auto_check, lock_y_auto_check, hinge_auto_check,
                             hinge_y_auto_check, pm_auto_check)
    /\ pc' = "idle"
    /\ last_op' = "hinge_count_pass"
    /\ UNCHANGED <<hinge_count_spin, lock_auto_check, lock_y_auto_check,
                   hinge_auto_check, hinge_y_auto_check, pm_auto_check, last_edit,
                   ranges_vars, pass_vars, last_count>>

\* prior store contents: every hinge flag unset, 0 or 1, every hinge position
\* 0 or 600, whatever the flag
CountHeights == {mm(840), mm(2100)}

CountFlags == {NoneVal, Num(0), Num(1)}

CountPositions == {Num(0), Num(mm(600))}

InitCount ==
    /\ \E h \in CountHeights, flags \in [1..4 -> CountFlags],
          positions \in [1..4 -> CountPositions] :
          dollar_vars = [k \in DOMAIN StoreOf(h, Num(mm(-25)), 0, 0, 0, 0, 0,
                                              [i \in 1..4 |-> <<0, 0>>]) |->
              IF \E i \in 1..4 : k = hinge_active_key[i]
              THEN flags[CHOOSE i \in 1..4 : k = hinge_active_key[i]]
              ELSE IF \E i \in 1..4 : k = hinge_position_key[i]
              THEN positions[CHOOSE i \in 1..4 : k = hinge_position_key[i]]
              ELSE StoreOf(h, Num(mm(-25)), 0, 0, 0, 0, 0,
                           [i \in 1..4 |-> <<0, 0>>])[k]]
    /\ InitWidgets
    /\ InitResults

\* at most this many changes of the hinge count in a behaviour
MaxCounts == 2

NextCount ==
    \/ \E count \in 0..4 : last_count.runs < MaxCounts /\ update_hinge_count(count)
    \/ on_variables_updated
    \/ update_hinge_count_pass
    \/ pc = "idle" /\ on_auto_state_changed("hinge")

SpecCount == InitCount /\ [][NextCount]_vars

\* C29: once update_hinge_count(n) has run, every hinge k > n has
\* hingeK_active = 0 and hingeK_position = 0 and gives no obstacle to the
\* solver or to the validation, every hinge k <= n is active, and the changes
\* it wrote set a hinge k <= n active only where the flag was unset or 0.
C29_HingesAboveCountCleared ==
    "hinge_count" \in done
        => /\ hinge_count_spin = last_count.count
           /\ \A k \in 1..4 :
                  k > hinge_count_spin
                      => /\ dollar_vars[hinge_active_key[k]] = Num(0)
                         /\ dollar_vars[hinge_position_key[k]] = Num(0)
                         /\ ObstacleOf(get_dollar_variable(hinge_active_key[k]),
                                       get_dollar_variable(hinge_position_key[k]),
                                       hinge_safety_distance) = <<>>
                         /\ ValidationObstacleOf(
                                get_dollar_variable(hinge_active_key[k]),
                                get_dollar_variable(hinge_position_key[k])) = <<>>
           /\ \A k \in 1..4 :
                  k <= hinge_count_spin
                      => /\ Truthy(dollar_vars[hinge_active_key[k]])
                         /\ hinge_position_key[k] \notin DOMAIN last_count.changes
                         /\ hinge_active_key[k] \in DOMAIN last_count.changes
                              <=> ~ Truthy(last_count.active_before[k])

\* update_hinge_count(2) has run to its end on a store where hinge 1 was
\* active, hinge 2 unset and hinge 3 active at 600
C29_Witness ==
    /\ last_op = "hinge_count_pass"
    /\ pc = "idle"
    /\ last_count.count = 2
    /\ last_count.active_before[1] = Num(1)
    /\ last_count.active_before[2] = NoneVal
    /\ last_count.active_before[3] = Num(1)
    /\ DOMAIN last_count.changes
         = {"hinge2_active", "hinge3_active", "hinge3_position",
            "hinge4_active", "hinge4_position"}
    /\ dollar_vars["hinge3_position"] = Num(0)

-----------------------------------------------------------------------------
(* What a pass writes *)

\* the variables of the groups whose auto check box is checked
CheckedGroupKeys(la, ly, ha, hy, pa) ==
    (IF la THEN {"lock_position"} ELSE {})
    \cup (IF ly THEN {"lock_y_offset"} ELSE {})
    \cup (IF ha THEN {hinge_position_key[i] : i \in 1..4} ELSE {})
    \cup (IF hy THEN {"hinge_y_offset"} ELSE {})
    \cup (IF pa THEN {pm_position_key[i] : i \in 1..4} ELSE {})

\* C30: a run_auto_calculations pass writes only variables of the groups
\* whose auto check box is checked (lock_position, lock_y_offset, the
\* hingeK_position, hinge_y_offset, the pmK_position); every other stored
\* variable keeps its value and no variable is added.
C30_PassWritesCheckedGroupsOnly ==
    [][ last_op' = "auto_state"
            => LET checked == CheckedGroupKeys(lock_auto_check', lock_y_auto_check',
                                               hinge_auto_check', hinge_y_auto_check',
                                               pm_auto_check')
               IN  /\ DOMAIN last_changes' \subseteq checked
                   /\ DOMAIN dollar_vars' = DOMAIN dollar_vars
                   /\ \A k \in DOMAIN dollar_vars :
                          k \notin checked => dollar_vars'[k] = dollar_vars[k] ]_vars

\* a pass with lock auto and hinge auto unchecked and PM auto checked has
\* written the four PM positions and neither the lock nor a hinge position
C30_Witness ==
    /\ last_op = "auto_state"
    /\ ~ lock_auto_check /\ ~ hinge_auto_check /\ pm_auto_check
    /\ {pm_position_key[i] : i \in 1..4} \subseteq DOMAIN last_changes
    /\ "lock_position" \notin DOMAIN last_changes
    /\ \A i \in 1..4 : hinge_position_key[i] \notin DOMAIN last_changes

=============================================================================
